---- MODULE Spec2Model ----
(***************************************************************************)
(* Sandboxed filesystem access (SecureFileSystemService) and directory     *)
(* scanning (SecureDirectoryScanner) of photools.                          *)
(*                                                                         *)
(* Strings are sequences of one-character strings, so that str(path),      *)
(* substring tests, startswith and lower() are computed as the code        *)
(* computes them.  A path is the sequence of its components after the      *)
(* root "/" (pathlib's parts without the anchor).                          *)
(***************************************************************************)
EXTENDS Integers, Sequences, FiniteSets, TLC

(***************************************************************************)
(* String helpers                                                          *)
(***************************************************************************)
SEP == "/"

NUL == "NUL"

UpperToLower ==
  [c \in {"A","B","C","D","E","F","G","H","I","J","K","L","M","N","O","P","Q","R","S","T","U","V","W","X","Y","Z"} |->
    CASE c = "A" -> "a"
      [] c = "B" -> "b"
      [] c = "C" -> "c"
      [] c = "D" -> "d"
      [] c = "E" -> "e"
      [] c = "F" -> "f"
      [] c = "G" -> "g"
      [] c = "H" -> "h"
      [] c = "I" -> "i"
      [] c = "J" -> "j"
      [] c = "K" -> "k"
      [] c = "L" -> "l"
      [] c = "M" -> "m"
      [] c = "N" -> "n"
      [] c = "O" -> "o"
      [] c = "P" -> "p"
      [] c = "Q" -> "q"
      [] c = "R" -> "r"
      [] c = "S" -> "s"
      [] c = "T" -> "t"
      [] c = "U" -> "u"
      [] c = "V" -> "v"
      [] c = "W" -> "w"
      [] c = "X" -> "x"
      [] c = "Y" -> "y"
      [] c = "Z" -> "z"]

Lower(s) == [i \in 1..Len(s) |-> IF s[i] \in DOMAIN UpperToLower THEN UpperToLower[s[i]] ELSE s[i]]

Contains(hay, needle) ==
  \E i \in 0..(Len(hay) - Len(needle)) : SubSeq(hay, i + 1, i + Len(needle)) = needle

StartsWith(s, prefix) ==
  /\ Len(prefix) <= Len(s)
  /\ SubSeq(s, 1, Len(prefix)) = prefix

RECURSIVE JoinParts(_)
JoinParts(parts) ==
  IF parts = <<>> THEN <<>>
  ELSE <<SEP>> \o Head(parts) \o JoinParts(Tail(parts))

\* str(Path): "/" for the root, "/a/b" otherwise
PathStr(parts) == IF parts = <<>> THEN <<SEP>> ELSE JoinParts(parts)

\* Path.name: last component, "" for the root
PathName(parts) == IF parts = <<>> THEN <<>> ELSE parts[Len(parts)]

\* str.rfind("."): 0-based index of the last dot, -1 when there is none
RFindDot(name) ==
  IF \E i \in 1..Len(name) : name[i] = "."
  THEN (CHOOSE i \in 1..Len(name) : name[i] = "." /\ \A j \in (i + 1)..Len(name) : name[j] # ".") - 1
  ELSE -1

\* Path.suffix
PathSuffix(parts) ==
  LET name == PathName(parts)
      i == RFindDot(name)
  IN IF 0 < i /\ i < Len(name) - 1 THEN SubSeq(name, i + 1, Len(name)) ELSE <<>>

\* Path.parent / posixpath.split: the root is its own parent
Parent(parts) == IF parts = <<>> THEN <<>> ELSE SubSeq(parts, 1, Len(parts) - 1)

\* PurePath.relative_to succeeds (no ValueError): component-wise prefix
RelativeTo(parts, root) ==
  /\ Len(root) <= Len(parts)
  /\ SubSeq(parts, 1, Len(root)) = root

(***************************************************************************)
(* Constant tables of the service                                          *)
(***************************************************************************)
DefaultAllowedExtensions ==
  {
    <<".","j","p","g">>, <<".","j","p","e","g">>, <<".","p","n","g">>, <<".","t","i","f","f">>,
    <<".","t","i","f">>, <<".","b","m","p">>, <<".","w","e","b","p">>, <<".","h","e","i","c">>,
    <<".","h","e","i","f">>, <<".","r","a","w">>, <<".","c","r","2">>, <<".","n","e","f">>,
    <<".","a","r","w">>, <<".","d","n","g">>, <<".","o","r","f">>, <<".","r","a","f">>,
    <<".","r","w","2">>, <<".","p","e","f">>, <<".","s","r","w">>, <<".","x","3","f">>,
    <<".","3","f","r">>, <<".","f","f","f">>, <<".","i","i","q">>, <<".","k","2","5">>,
    <<".","k","d","c">>, <<".","m","e","f">>, <<".","m","o","s">>, <<".","m","r","w">>,
    <<".","n","r","w">>, <<".","p","t","x">>, <<".","r","3","d">>, <<".","r","w","l">>,
    <<".","s","r","2">>, <<".","s","r","f">>
  }

SuspiciousPatterns ==
  <<
    <<".",".","\\">>, <<".",".","/">>, <<".",".","\\","\\">>, <<"%","2","e","%","2","e">>,
    <<"%","2","f">>, <<"%","5","c">>, <<"\\","\\","?","\\">>, <<"\\","\\",".">>
  >>

ForbiddenPatterns ==
  <<
    <<"/","e","t","c","/">>, <<"/","b","o","o","t","/">>, <<"/","s","y","s","/">>,
    <<"/","p","r","o","c","/">>, <<"/","d","e","v","/">>, <<"/","r","o","o","t","/">>,
    <<"/","v","a","r","/","l","o","g","/">>, <<"/","v","a","r","/","s","p","o","o","l","/">>,
    <<"/","u","s","r","/","b","i","n","/">>, <<"/","u","s","r","/","s","b","i","n","/">>,
    <<"/","s","b","i","n","/">>, <<"/","b","i","n","/">>,
    <<"c",":","\\","w","i","n","d","o","w","s","\\">>,
    <<"c",":","\\","p","r","o","g","r","a","m"," ","f","i","l","e","s","\\">>,
    <<"c",":","\\","u","s","e","r","s","\\","a","d","m","i","n","i","s","t","r","a","t","o","r","\\">>,
    <<"c",":","\\","u","s","e","r","s","\\","d","e","f","a","u","l","t","\\">>,
    <<"\\","w","i","n","d","o","w","s","\\">>,
    <<"\\","p","r","o","g","r","a","m"," ","f","i","l","e","s","\\">>,
    <<"\\","s","y","s","t","e","m","3","2","\\">>, <<"\\","s","y","s","w","o","w","6","4","\\">>
  >>

DangerousExtensions ==
  {
    <<".","e","x","e">>, <<".","b","a","t">>, <<".","c","m","d">>, <<".","c","o","m">>,
    <<".","s","c","r">>, <<".","p","i","f">>, <<".","v","b","s">>, <<".","v","b","e">>,
    <<".","j","s">>, <<".","j","s","e">>, <<".","w","s","f">>, <<".","w","s","h">>,
    <<".","m","s","i">>, <<".","m","s","p">>, <<".","d","l","l">>, <<".","s","y","s">>,
    <<".","d","r","v">>, <<".","s","h">>, <<".","b","a","s","h">>, <<".","z","s","h">>,
    <<".","c","s","h">>, <<".","f","i","s","h">>, <<".","p","l">>, <<".","p","y">>, <<".","r","b">>,
    <<".","l","u","a">>, <<".","p","s","1">>, <<".","z","i","p">>, <<".","r","a","r">>,
    <<".","7","z">>, <<".","t","a","r">>, <<".","g","z">>, <<".","b","z","2">>, <<".","i","n","i">>,
    <<".","c","f","g">>, <<".","c","o","n","f">>, <<".","c","o","n","f","i","g">>,
    <<".","p","l","i","s","t">>, <<".","r","e","g">>, <<".","k","e","y">>, <<".","c","r","t">>,
    <<".","p","e","m">>, <<".","p","1","2">>, <<".","d","b">>, <<".","s","q","l","i","t","e">>,
    <<".","m","d","b">>, <<".","a","c","c","d","b">>, <<".","l","o","g">>, <<".","t","m","p">>,
    <<".","t","e","m","p">>, <<".","s","w","p">>, <<".","b","a","k">>
  }

ReadonlyPhotoExtensions ==
  {
    <<".","j","p","g">>, <<".","j","p","e","g">>, <<".","p","n","g">>, <<".","t","i","f","f">>,
    <<".","t","i","f">>, <<".","b","m","p">>, <<".","w","e","b","p">>, <<".","h","e","i","c">>,
    <<".","h","e","i","f">>
  }

(***************************************************************************)
(* The filesystem the service runs against                                 *)
(***************************************************************************)
DOTDOT == <<".", ".">>

n_p == <<"p">>
n_p2 == <<"p", "2">>
n_o == <<"o">>
n_s == <<"s">>
n_e == <<"e">>
n_b == <<"b">>
n_ajpg == <<"a", ".", "j", "p", "g">>
n_bjpg == <<"b", ".", "j", "p", "g">>
n_cjpg == <<"c", ".", "j", "p", "g">>
n_djpg == <<"d", ".", "j", "p", "g">>
n_cpng == <<"c", ".", "P", "N", "G">>
n_ljpg == <<"l", ".", "j", "p", "g">>
n_xjpg == <<"x", ".", "j", "p", "g">>
n_gjpg == <<"g", ".", "j", "p", "g">>
n_ujpg == <<"u", ".", "j", "p", "g">>
n_hjpg == <<".", "h", ".", "j", "p", "g">>
n_rsh == <<"r", ".", "s", "h">>
n_ntxt == <<"n", ".", "t", "x", "t">>
n_nxjpg == <<"n", "x", ".", "j", "p", "g">>
n_h1 == <<"h", "1">>
n_h2 == <<"h", "2">>
n_m1 == <<"m", "1">>
n_m2 == <<"m", "2">>
n_k1 == <<"k", "1">>
n_k2 == <<"k", "2">>
n_dg == <<"d", "g">>
n_zz == <<"z", "z">>
n_enc == <<"%", "2", "E", "%", "2", "e">>
n_nul == <<"a", NUL, "b">>
n_etc == <<"e", "t", "c">>

Dir(path) == [path |-> path, kind |-> "dir", target |-> <<>>, size |-> 4096, readable |-> TRUE]
File(path, size, readable) ==
  [path |-> path, kind |-> "file", target |-> <<>>, size |-> size, readable |-> readable]
Link(path, target) ==
  [path |-> path, kind |-> "link", target |-> target, size |-> 0, readable |-> TRUE]

\* Directory entries in the order iterdir() yields them
World ==
  << Dir(<<>>),
     Dir(<<n_p>>),
     File(<<n_p, n_ajpg>>, 1000, TRUE),
     [Dir(<<n_p, n_b>>) EXCEPT !.readable = FALSE],
     File(<<n_p, n_b, n_ajpg>>, 1000, TRUE),
     Dir(<<n_p, n_s>>),
     File(<<n_p, n_s, n_bjpg>>, 1000, TRUE),
     Dir(<<n_p, n_s, n_rsh>>),
     File(<<n_p, n_s, n_rsh, n_ajpg>>, 1000, TRUE),
     Dir(<<n_p, n_s, n_hjpg>>),
     File(<<n_p, n_s, n_hjpg, n_ajpg>>, 1000, TRUE),
     File(<<n_p, n_cpng>>, 1000, TRUE),
     Link(<<n_p, n_ljpg>>, <<n_p, n_ajpg>>),
     Link(<<n_p, n_e>>, <<n_o>>),
     Link(<<n_p, n_s, n_e>>, <<n_o>>),
     Link(<<n_p, n_s, n_xjpg>>, <<n_o, n_cjpg>>),
     Link(<<n_p, n_h1>>, <<n_p, n_h2>>),
     Link(<<n_p, n_h2>>, <<n_p, n_s>>),
     Link(<<n_p, n_m1>>, <<n_p, n_m2>>),
     Link(<<n_p, n_m2>>, <<n_o>>),
     Link(<<n_p, n_k1>>, <<n_p, n_k2>>),
     Link(<<n_p, n_k2>>, <<n_p, n_k1>>),
     Link(<<n_p, n_dg>>, <<n_p, n_zz>>),
     File(<<n_p, n_hjpg>>, 1000, TRUE),
     File(<<n_p, n_rsh>>, 1000, TRUE),
     File(<<n_p, n_ntxt>>, 1000, TRUE),
     File(<<n_p, n_gjpg>>, 629145600, TRUE),
     File(<<n_p, n_ujpg>>, 1000, FALSE),
     Dir(<<n_o>>),
     File(<<n_o, n_cjpg>>, 1000, TRUE),
     Link(<<n_o, n_b>>, <<n_p, n_s>>),
     Link(<<n_o, n_hjpg>>, <<n_o, n_cjpg>>),
     Dir(<<n_p, n_etc>>),
     File(<<n_p, n_etc, n_ajpg>>, 1000, TRUE),
     Dir(<<n_etc>>),
     File(<<n_etc, n_ajpg>>, 1000, TRUE),
     Dir(<<n_p2>>),
     File(<<n_p2, n_djpg>>, 1000, TRUE),
     Dir(<<n_p2, n_s>>),
     Dir(<<n_p2, n_s, n_s>>),
     File(<<n_p2, n_s, n_s, n_djpg>>, 1000, TRUE) >>

Missing == [path |-> <<>>, kind |-> "missing", target |-> <<>>, size |-> 0, readable |-> FALSE]

FirstOr(seq, default) == IF seq = <<>> THEN default ELSE seq[1]

\* lstat of an already-resolved location
Node(path) == FirstOr(SelectSeq(World, LAMBDA n : n.path = path), Missing)

(***************************************************************************)
(* Path resolution                                                         *)
(***************************************************************************)
\* posixpath._joinrealpath: err = "loop" when a symlink loop is met and
\* err = "null" when a component handed to os.lstat holds a null byte
\* (ValueError).  With strict the walk stops at the first missing component
\* (what the kernel does for stat/lstat), without it the remaining components
\* are appended.
RECURSIVE JoinRealPath(_, _, _, _)
JoinRealPath(path, rest, strict, inprogress) ==
  IF rest = <<>> THEN [path |-> path, err |-> "none"]
  ELSE IF Head(rest) = DOTDOT THEN
    IF strict /\ Node(path).kind # "dir"
    THEN [path |-> path, err |-> "noent"]
    ELSE JoinRealPath(Parent(path), Tail(rest), strict, inprogress)
  ELSE
    LET tl == Tail(rest)
        newpath == Append(path, Head(rest))
        node == Node(newpath)
        r == JoinRealPath(<<>>, node.target, strict, inprogress \cup {newpath})
    IN IF \E i \in 1..Len(Head(rest)) : Head(rest)[i] = NUL
         THEN [path |-> newpath \o tl, err |-> "null"]
       ELSE IF node.kind = "missing" /\ strict THEN [path |-> newpath \o tl, err |-> "noent"]
       ELSE IF node.kind # "link" THEN JoinRealPath(newpath, tl, strict, inprogress)
       ELSE IF newpath \in inprogress THEN [path |-> newpath \o tl, err |-> "loop"]
       ELSE IF r.err # "none" THEN [path |-> r.path \o tl, err |-> r.err]
       ELSE JoinRealPath(r.path, tl, strict, inprogress)

\* posixpath.normpath on an absolute path: '..' components are collapsed
\* lexically ('..' at the root stays at the root)
RECURSIVE NormPath(_, _)
NormPath(done, rest) ==
  IF rest = <<>> THEN done
  ELSE IF Head(rest) = DOTDOT THEN NormPath(Parent(done), Tail(rest))
  ELSE NormPath(Append(done, Head(rest)), Tail(rest))

\* realpath leaves the path from a symlink loop on unresolved and abspath
\* normalises it to p; Path.resolve then calls stat(p), which raises
\* ValueError for a null byte anywhere in p and whose ELOOP is turned into
\* RuntimeError.  A ValueError of os.lstat leaves realpath as it is.
ResolveResult(r) ==
  LET p == NormPath(<<>>, r.path)
  IN IF r.err = "null" THEN [path |-> r.path, exc |-> "ValueError"]
     ELSE IF r.err # "loop" THEN [path |-> r.path, exc |-> "none"]
     ELSE IF \E i \in 1..Len(p) : \E j \in 1..Len(p[i]) : p[i][j] = NUL
       THEN [path |-> p, exc |-> "ValueError"]
     ELSE [path |-> p,
           exc |-> IF JoinRealPath(<<>>, p, TRUE, {}).err = "loop"
                   THEN "RuntimeError" ELSE "none"]

\* Path.resolve(strict=False): RuntimeError("Symlink loop") when the result
\* cannot be stat'ed for a loop, ValueError for a null byte
Resolve(parts) == ResolveResult(JoinRealPath(<<>>, parts, FALSE, {}))

StatResult(r) == IF r.err = "none" THEN Node(r.path) ELSE Missing

\* os.stat: follows every symlink; errors are reported as a missing node
Stat(parts) == StatResult(JoinRealPath(<<>>, parts, TRUE, {}))

LStatResult(r, name) ==
  IF r.err = "none" /\ name # DOTDOT THEN Node(Append(r.path, name)) ELSE Missing

\* os.lstat: follows the symlinks of the parent only
LStat(parts) ==
  IF parts = <<>> THEN Node(<<>>)
  ELSE LStatResult(JoinRealPath(<<>>, Parent(parts), TRUE, {}), PathName(parts))

Exists(parts) == Stat(parts).kind # "missing"
IsDir(parts) == Stat(parts).kind = "dir"
IsFile(parts) == Stat(parts).kind = "file"
IsSymlink(parts) == LStat(parts).kind = "link"
\* os.access(path, R_OK)
Readable(parts) == Stat(parts).readable

(***************************************************************************)
(* SecureFileSystemService: path validation                                *)
(***************************************************************************)
\* Some suspicious pattern occurs in the lower-cased raw string
AnySuspicious(path_lower) ==
  \E i \in 1..Len(SuspiciousPatterns) : Contains(path_lower, SuspiciousPatterns[i])

Raise(exc, rule) == [exc |-> exc, rule |-> rule, path |-> <<>>, value |-> FALSE]

Return(path, value) == [exc |-> "none", rule |-> "", path |-> path, value |-> value]

\* _normalize_path from the resolve() call on
NormalizeResolved(resolved) ==
  IF resolved.exc = "ValueError" THEN Raise("FileSystemSecurityError", "Invalid path")
  ELSE IF resolved.exc # "none" THEN Raise(resolved.exc, "Symlink loop")
  ELSE IF \/ Contains(PathStr(resolved.path), <<"/", ".", ".">>)
          \/ Contains(PathStr(resolved.path), <<"\\", ".", ".", "\\">>)
    THEN Raise("FileSystemSecurityError", "Path traversal detected after resolution")
  ELSE Return(resolved.path, TRUE)

NormalizeChecked_PatternsFirst(c, path, path_str) ==
  IF \E i \in 1..Len(path_str) : path_str[i] = NUL
    THEN Raise("FileSystemSecurityError", "Null byte detected in path")
  ELSE IF AnySuspicious(Lower(path_str))
    THEN Raise("FileSystemSecurityError", "Suspicious path pattern detected")
  ELSE IF Len(path_str) > c.max_path_length
    THEN Raise("FileSystemSecurityError", "Path too long")
  ELSE NormalizeResolved(Resolve(path))

\* _normalize_path, the checks on the raw string
NormalizeChecked(c, path, path_str) ==
  IF \E i \in 1..Len(path_str) : path_str[i] = NUL
    THEN Raise("FileSystemSecurityError", "Null byte detected in path")
  ELSE IF Len(path_str) > c.max_path_length
    THEN Raise("FileSystemSecurityError", "Path too long")
  ELSE IF AnySuspicious(Lower(path_str))
    THEN Raise("FileSystemSecurityError", "Suspicious path pattern detected")
  ELSE NormalizeResolved(Resolve(path))

\* _normalize_path: the resolved path, or the exception that leaves the method
NormalizePath(c, path) == NormalizeChecked(c, path, PathStr(path))

TargetInside(symlink_target, allowed_root) ==
  symlink_target.exc = "none" /\ RelativeTo(symlink_target.path, allowed_root)

\* _verify_no_symlink_escape: walks target_path from allowed_root, one component at a time
RECURSIVE WalkNoEscape(_, _, _)
WalkNoEscape(current_path, components, allowed_root) ==
  IF components = <<>> THEN TRUE
  ELSE
    LET current == Append(current_path, Head(components))
    IN IF IsSymlink(current) /\ ~TargetInside(Resolve(current), allowed_root) THEN FALSE
       ELSE WalkNoEscape(current, Tail(components), allowed_root)

VerifyNoSymlinkEscape(target_path, allowed_root) ==
  IF ~RelativeTo(target_path, allowed_root) THEN FALSE
  ELSE WalkNoEscape(allowed_root, SubSeq(target_path, Len(allowed_root) + 1, Len(target_path)),
                    allowed_root)

\* One iteration of the loop of _is_path_allowed over allowed_directories
AllowedUnder(abs_path, allowed_dir) ==
  /\ RelativeTo(abs_path, allowed_dir)
  /\ \/ PathStr(abs_path) = PathStr(allowed_dir)
     \/ StartsWith(PathStr(abs_path), PathStr(allowed_dir) \o <<SEP>>)
  /\ VerifyNoSymlinkEscape(abs_path, allowed_dir)

\* _is_path_allowed from normalized_path.resolve() on
AllowedResolved(c, abs_path) ==
  IF abs_path.exc = "ValueError" THEN Raise("ValueError", "embedded null byte")
  ELSE IF abs_path.exc # "none" THEN Return(<<>>, FALSE)
  ELSE Return(abs_path.path,
              \E i \in 1..Len(c.allowed_directories) :
                 AllowedUnder(abs_path.path, c.allowed_directories[i]))

AllowedNormalized(c, normalized) ==
  IF normalized.exc # "none" THEN normalized
  ELSE AllowedResolved(c, Resolve(normalized.path))

\* _is_path_allowed: value is the boolean returned, exc the exception that leaves it
IsPathAllowed(c, path) == AllowedNormalized(c, NormalizePath(c, path))

\* _check_system_directory_access (os.name is "posix"): TRUE when it raises
SystemDirectoryDenied(path) ==
  \E i \in 1..Len(ForbiddenPatterns) : Contains(Lower(PathStr(path)), ForbiddenPatterns[i])

\* _check_dangerous_file_types: TRUE when it raises; st is the stat of the path
DangerousFileType(c, path, st) ==
  /\ ~(st.kind # "file" /\ st.kind = "missing")
  /\ Lower(PathSuffix(path)) \in DangerousExtensions
  /\ Lower(PathSuffix(path)) \notin c.allowed_extensions

\* validate_path_access, the final re-check of the resolved path
ValidateFinalAllowed(normalized_path, final_allowed) ==
  IF final_allowed.exc \in {"OSError", "RuntimeError"}
    THEN Raise("FileSystemSecurityError", "Cannot resolve path safely")
  ELSE IF final_allowed.exc # "none" THEN final_allowed
  ELSE IF ~final_allowed.value
    THEN Raise("FileSystemSecurityError", "Resolved path escapes allowed directories")
  ELSE Return(normalized_path, TRUE)

ValidateFinal(c, normalized_path, final_resolved) ==
  IF final_resolved.exc = "ValueError" THEN Raise("ValueError", "embedded null byte")
  ELSE IF final_resolved.exc # "none"
    THEN Raise("FileSystemSecurityError", "Cannot resolve path safely")
  ELSE ValidateFinalAllowed(normalized_path, IsPathAllowed(c, final_resolved.path))

\* validate_path_access, the checks on the normalized path (st: its stat)
ValidatePolicy(c, normalized_path, st, is_symlink) ==
  IF SystemDirectoryDenied(normalized_path)
    THEN Raise("FileSystemSecurityError", "Access to system directory denied")
  ELSE IF DangerousFileType(c, normalized_path, st)
    THEN Raise("FileSystemSecurityError", "Dangerous file type not allowed")
  ELSE IF is_symlink /\ ~c.follow_symlinks
    THEN Raise("FileSystemSecurityError", "Symlinks not allowed")
  ELSE IF /\ StartsWith(PathName(normalized_path), <<".">>)
          /\ st.kind = "dir"
          /\ c.skip_hidden_directories
    THEN Raise("FileSystemSecurityError", "Hidden directories not allowed")
  ELSE IF /\ StartsWith(PathName(normalized_path), <<".">>)
          /\ st.kind = "file"
          /\ c.skip_hidden_files
    THEN Raise("FileSystemSecurityError", "Hidden files not allowed")
  ELSE ValidateFinal(c, normalized_path, Resolve(normalized_path))

ValidateAllowed(c, normalized_path, allowed) ==
  IF allowed.exc # "none" THEN allowed
  ELSE IF ~allowed.value
    THEN Raise("FileSystemSecurityError", "Path not in allowed directories")
  ELSE ValidatePolicy(c, normalized_path, Stat(normalized_path), IsSymlink(normalized_path))

ValidateNormalized(c, path, normalized) ==
  IF normalized.exc # "none" THEN normalized
  ELSE ValidateAllowed(c, normalized.path, IsPathAllowed(c, path))

\* validate_path_access: exc = "none" and value = TRUE when it returns True
ValidatePathAccess(c, path) == ValidateNormalized(c, path, NormalizePath(c, path))

(***************************************************************************)
(* SecureFileSystemService: classification and enumeration                 *)
(***************************************************************************)
Entry(path, is_directory, size, access_level, is_symlink, error) ==
  [path |-> path, is_directory |-> is_directory, size |-> size, access_level |-> access_level,
   is_symlink |-> is_symlink, error |-> error]

\* _check_file_constraints; st is the stat of the file
CheckFileConstraints(c, file_path, st) ==
  IF st.kind = "missing" THEN "no_access"
  ELSE IF st.size > c.max_file_size_mb * 1024 * 1024 THEN "no_access"
  ELSE IF Lower(PathSuffix(file_path)) \notin c.allowed_extensions THEN "no_access"
  ELSE IF ~st.readable THEN "no_access"
  ELSE "read_only"

\* get_file_info once the path is validated (st: stat of the normalized path)
FileInfoOf(c, normalized_path, st, is_symlink) ==
  IF st.kind = "missing"
    THEN Entry(normalized_path, FALSE, 0, "no_access", FALSE, "File not found")
  ELSE Entry(normalized_path, st.kind = "dir", st.size,
             IF st.kind = "dir" THEN "read_only"
             ELSE CheckFileConstraints(c, normalized_path, st),
             is_symlink, "")

FileInfoValidated(c, file_path, v) ==
  IF v.exc = "FileSystemSecurityError"
    THEN Entry(file_path, FALSE, 0, "no_access", FALSE, v.rule)
  ELSE IF v.exc # "none"
    THEN Entry(file_path, FALSE, 0, "no_access", FALSE, "Access error")
  ELSE FileInfoOf(c, v.path, Stat(v.path), IsSymlink(v.path))

\* get_file_info; error = "" stands for None
GetFileInfo(c, file_path) == FileInfoValidated(c, file_path, ValidatePathAccess(c, file_path))

ChildPaths(directory, kids) ==
  [i \in 1..Len(kids) |-> Append(directory, PathName(kids[i].path))]

ChildrenOf(real) == SelectSeq(World, LAMBDA n : n.path # <<>> /\ Parent(n.path) = real)

\* directory.iterdir(): the children of the directory the path leads to, in listing order
IterDir(directory) == ChildPaths(directory, ChildrenOf(Stat(directory).path))

RECURSIVE ListItems(_, _, _, _)

ListReadable(c, directory, st, current_depth, max_depth) ==
  IF st.kind = "dir" /\ st.readable
  THEN ListItems(c, IterDir(directory), current_depth, max_depth)
  ELSE <<>>

\* _list_directory_recursive: iterdir() on an unreadable directory raises
\* PermissionError, which the method catches and logs; nothing is listed
ListDirectoryRecursive(c, directory, current_depth, max_depth) ==
  ListReadable(c, directory, Stat(directory), current_depth, max_depth)

\* Variant of ListAccepted: the entry is appended whatever its access level
ListAccepted_AppendAll(c, item, st, file_info, current_depth, max_depth) ==
  <<file_info>>
  \o (IF /\ st.kind = "dir"
         /\ current_depth < max_depth
         /\ file_info.access_level # "no_access"
      THEN ListDirectoryRecursive(c, item, current_depth + 1, max_depth)
      ELSE <<>>)

\* The entries one item of the loop of _list_directory_recursive contributes
\* (st: stat of the item)
ListAccepted(c, item, st, file_info, current_depth, max_depth) ==
  (IF file_info.access_level # "no_access" THEN <<file_info>> ELSE <<>>)
  \o (IF /\ st.kind = "dir"
         /\ current_depth < max_depth
         /\ file_info.access_level # "no_access"
      THEN ListDirectoryRecursive(c, item, current_depth + 1, max_depth)
      ELSE <<>>)

ListItem(c, item, st, is_symlink, current_depth, max_depth) ==
  IF /\ StartsWith(PathName(item), <<".">>)
     /\ \/ st.kind = "dir" /\ c.skip_hidden_directories
        \/ st.kind = "file" /\ c.skip_hidden_files
    THEN <<>>
  ELSE IF is_symlink /\ ~c.follow_symlinks THEN <<>>
  ELSE ListAccepted(c, item, st, GetFileInfo(c, item), current_depth, max_depth)

\* _list_directory_recursive: the loop over directory.iterdir()
ListItems(c, items, current_depth, max_depth) ==
  IF items = <<>> THEN <<>>
  ELSE ListItem(c, Head(items), Stat(Head(items)), IsSymlink(Head(items)),
                current_depth, max_depth)
       \o ListItems(c, Tail(items), current_depth, max_depth)

ListValidated(c, v, max_depth) ==
  IF v.exc # "none" THEN <<>>
  ELSE IF ~IsDir(v.path) THEN <<>>
  ELSE ListDirectoryRecursive(c, v.path, 0, max_depth)

\* list_directory; max_depth = 0 stands for None
ListDirectory(c, directory_path, recursive, max_depth) ==
  ListValidated(c, ValidatePathAccess(c, directory_path),
                IF ~recursive THEN 0
                ELSE IF max_depth # 0 THEN max_depth ELSE c.max_depth)

\* Variant of GetPhotoFiles: every listed entry is handed on
GetPhotoFiles_Unfiltered(c, directory_path, recursive) ==
  ListDirectory(c, directory_path, recursive, 0)

\* get_photo_files
GetPhotoFiles(c, directory_path, recursive) ==
  SelectSeq(ListDirectory(c, directory_path, recursive, 0),
            LAMBDA entry : /\ ~entry.is_directory
                           /\ entry.access_level = "read_only"
                           /\ Lower(PathSuffix(entry.path)) \in c.allowed_extensions)

(***************************************************************************)
(* Service configurations (SecurityConstraints plus allowed directories)   *)
(***************************************************************************)
Constraints(roots, follow, hidden_files, hidden_dirs) ==
  [allowed_directories |-> roots, follow_symlinks |-> follow,
   skip_hidden_files |-> hidden_files, skip_hidden_directories |-> hidden_dirs,
   max_path_length |-> 4096, max_depth |-> 10, max_file_size_mb |-> 500,
   allowed_extensions |-> DefaultAllowedExtensions]

\* create_readonly_photo_service
ReadonlyPhotoService(roots) ==
  [allowed_directories |-> roots, follow_symlinks |-> FALSE,
   skip_hidden_files |-> TRUE, skip_hidden_directories |-> TRUE,
   max_path_length |-> 1024, max_depth |-> 5, max_file_size_mb |-> 100,
   allowed_extensions |-> ReadonlyPhotoExtensions]

\* _validate_allowed_directories passes (the constructor does not raise)
ValidAllowedDirectories(roots) ==
  \A i \in 1..Len(roots) : Exists(roots[i]) /\ IsDir(roots[i]) /\ Readable(roots[i])

ServiceConfigs ==
  { c \in { Constraints(<< <<n_p>> >>, FALSE, TRUE, TRUE),
            Constraints(<< <<n_p>> >>, TRUE, TRUE, TRUE),
            Constraints(<< <<n_p, n_s>> >>, FALSE, TRUE, TRUE),
            Constraints(<< <<n_p>>, <<n_o>> >>, TRUE, TRUE, TRUE),
            Constraints(<< <<n_p>> >>, FALSE, FALSE, FALSE),
            ReadonlyPhotoService(<< <<n_p>> >>),
            [Constraints(<< <<n_p2>> >>, FALSE, TRUE, TRUE) EXCEPT !.max_depth = 1],
            [Constraints(<< <<n_p>>, <<n_o>> >>, TRUE, TRUE, TRUE) EXCEPT !.max_depth = 1],
            Constraints(<< <<n_etc>> >>, FALSE, TRUE, TRUE),
            [Constraints(<< <<n_p>> >>, FALSE, TRUE, TRUE)
               EXCEPT !.allowed_extensions = @ \cup {<<".", "s", "h">>}],
            [Constraints(<< <<n_p>> >>, FALSE, TRUE, TRUE) EXCEPT !.max_path_length = 8] } :
      ValidAllowedDirectories(c.allowed_directories) }

\* Candidate paths handed to validate_path_access
CandidatePaths ==
  { <<n_p>>, <<n_p, n_ajpg>>, <<n_p, n_s>>, <<n_p, n_s, n_bjpg>>, <<n_p, n_cpng>>,
    <<n_p, n_ljpg>>, <<n_p, n_e>>, <<n_p, n_e, n_cjpg>>, <<n_p, n_e, n_b, n_bjpg>>,
    <<n_p, n_s, n_e, n_cjpg>>, <<n_p, n_s, n_e, n_b, n_bjpg>>, <<n_p, n_s, n_xjpg>>,
    <<n_o>>, <<n_o, n_cjpg>>, <<n_o, n_b, n_bjpg>>, <<n_p2>>, <<n_p2, n_djpg>>,
    <<n_p, DOTDOT, n_o, n_cjpg>>, <<n_p, n_s, DOTDOT>>, <<n_p, DOTDOT>>,
    <<n_p, n_s, DOTDOT, n_ajpg>>, <<n_p, n_enc, n_o>>, <<n_p, n_nul>>,
    <<n_p, n_h1>>, <<n_p, n_h1, n_bjpg>>, <<n_p, n_m1>>, <<n_p, n_m1, n_cjpg>>,
    <<n_p, n_k1>>, <<n_p, n_dg>>, <<n_p, n_nxjpg>>, <<n_p, n_hjpg>>, <<n_p, n_rsh>>,
    <<n_p, n_ntxt>>, <<n_p, n_gjpg>>, <<>>,
    <<n_p, n_k1, DOTDOT>>, <<n_p, n_k1, n_ajpg>>,
    <<n_etc>>, <<n_etc, n_ajpg>>, <<n_p, n_etc>>, <<n_p, n_etc, n_ajpg>>,
    <<n_p, n_s, n_rsh>>, <<n_p, n_s, n_rsh, n_ajpg>>, <<n_p, n_zz, n_rsh>>,
    <<n_p, n_s, n_hjpg>>, <<n_p, n_s, n_hjpg, n_ajpg>>, <<n_o, n_hjpg>>,
    <<n_p, DOTDOT, n_nul>>, <<n_p, <<"%", "2", "F">>>>, <<n_p, <<"a", "%", "5", "c">>>>,
    <<n_p, <<".", ".", "\\", "a">>>>, <<n_p, <<"\\", "\\", "?", "\\", "a">>>>,
    <<n_p, <<"\\", "\\", ".", "a">>>> }

\* Paths handed to get_file_info
InfoPaths == CandidatePaths \cup { <<n_p, n_ujpg>>, <<n_p, n_b>> }

\* Directories handed to list_directory
ListDirs == { <<n_p>>, <<n_p, n_s>>, <<n_o>>, <<n_p2>>, <<n_p, n_ajpg>>, <<n_p, n_e>> }

\* max_depth arguments of list_directory; 0 stands for None
ListDepths == {0, 1, 3}

\* allowed_directories arguments of the constructor
RootLists ==
  { <<>>, << <<n_p>> >>, << <<n_p>>, <<n_o>> >>, << <<n_p, n_zz>> >>, << <<n_p, n_ajpg>> >>,
    << <<n_p, n_b>> >>, << <<n_p>>, <<n_p, n_zz>> >>, << <<n_p, n_k1>> >>, << <<n_p, n_h1>> >>,
    << <<n_p, n_dg>> >>, << <<n_p, n_ajpg, DOTDOT>> >>, << <<n_p, n_k1, DOTDOT>> >>,
    << <<n_p, n_nul>> >>, << <<n_p, n_k1>>, <<n_p, n_nul>> >> }

\* SecureFileSystemService.__init__: Path(d).resolve() of each entry in turn,
\* then _validate_allowed_directories on the resolved list.  exc is the
\* exception that leaves it, "none" when the service is built with
\* allowed_directories
ConstructService(roots) ==
  LET resolved == [i \in 1..Len(roots) |-> Resolve(roots[i])]
      unresolved == { i \in 1..Len(roots) : resolved[i].exc # "none" }
      allowed_directories == [i \in 1..Len(roots) |-> resolved[i].path]
  IN IF unresolved # {}
       THEN [exc |-> resolved[CHOOSE i \in unresolved : \A j \in unresolved : i <= j].exc,
             allowed_directories |-> <<>>]
     ELSE IF ValidAllowedDirectories(allowed_directories)
       THEN [exc |-> "none", allowed_directories |-> allowed_directories]
     ELSE [exc |-> "FileSystemSecurityError", allowed_directories |-> <<>>]

(***************************************************************************)
(* SecureDirectoryScanner                                                  *)
(***************************************************************************)
MaxClock == 1

\* Two calls of scan_directory_fast/full, free to overlap
Scans == {1, 2}

\* ScanOptions.max_files is Optional[int]: <<>> is None and <<v>> the integer v
None == <<>>

ScanOptions(strategy, recursive, max_files, batch_size, progress_callback) ==
  [strategy |-> strategy, recursive |-> recursive, max_files |-> max_files,
   batch_size |-> batch_size, progress_callback |-> progress_callback]

\* Scan requests: the method called (scan_directory_fast or
\* scan_directory_full), the directory and the options of one call.  The
\* method does not look at options.strategy, so a call may name either
\* strategy.
ScanRequests ==
  { [method |-> "scan_directory_fast", directory |-> <<n_p>>,
     options |-> ScanOptions("fast_metadata_only", TRUE, <<2>>, 50, TRUE)],
    [method |-> "scan_directory_full", directory |-> <<n_p>>,
     options |-> ScanOptions("fast_metadata_only", FALSE, <<4>>, 50, FALSE)],
    [method |-> "scan_directory_fast", directory |-> <<n_p>>,
     options |-> ScanOptions("full_metadata", FALSE, None, 50, FALSE)],
    [method |-> "scan_directory_full", directory |-> <<n_p, n_s>>,
     options |-> ScanOptions("full_metadata", FALSE, <<1>>, 50, TRUE)],
    [method |-> "scan_directory_full", directory |-> <<n_o>>,
     options |-> ScanOptions("full_metadata", TRUE, None, 50, FALSE)],
    [method |-> "scan_directory_fast", directory |-> <<n_p, n_nxjpg>>,
     options |-> ScanOptions("fast_metadata_only", TRUE, None, 50, FALSE)],
    [method |-> "scan_directory_fast", directory |-> <<n_p, DOTDOT, n_o>>,
     options |-> ScanOptions("fast_metadata_only", TRUE, None, 50, FALSE)],
    [method |-> "scan_directory_fast", directory |-> <<n_p>>,
     options |-> ScanOptions("fast_metadata_only", FALSE, <<0>>, 50, FALSE)],
    [method |-> "scan_directory_fast", directory |-> <<n_p>>,
     options |-> ScanOptions("fast_metadata_only", FALSE, <<-1>>, 50, FALSE)],
    [method |-> "scan_directory_full", directory |-> <<n_p, n_s>>,
     options |-> ScanOptions("full_metadata", FALSE, None, 0, FALSE)] }

\* ScanProgress()
NewProgress ==
  [total_files |-> 0, processed_files |-> 0, successful_files |-> 0, failed_files |-> 0,
   current_file |-> <<>>, errors |-> <<>>]

\* A Python float is an IEEE-754 binary64, held as its bits: the sign, the
\* biased exponent and the 52 fraction bits, most significant first.
RECURSIVE Reverse(_)
Reverse(s) == IF s = <<>> THEN <<>> ELSE Append(Reverse(Tail(s)), Head(s))

\* Binary addition of two bit sequences, least significant bit first
RECURSIVE AddBits(_, _, _)
AddBits(a, b, carry) ==
  IF a = <<>> /\ b = <<>> THEN (IF carry = 1 THEN <<1>> ELSE <<>>)
  ELSE LET x == IF a = <<>> THEN 0 ELSE Head(a)
           y == IF b = <<>> THEN 0 ELSE Head(b)
       IN <<(x + y + carry) % 2>>
          \o AddBits(IF a = <<>> THEN a ELSE Tail(a),
                     IF b = <<>> THEN b ELSE Tail(b),
                     (x + y + carry) \div 2)

\* Rounding to nearest, ties to even: bits is a significand, most significant
\* bit first with a leading 1, of which 53 bits are kept; e is the exponent of
\* its leading bit
RoundDouble(sign, e, bits) ==
  LET kept == SubSeq(bits, 1, 53)
      sticky == \E i \in 55..Len(bits) : bits[i] = 1
      up == bits[54] = 1 /\ (sticky \/ kept[53] = 1)
      sum == Reverse(AddBits(Reverse(kept), <<1>>, 0))
  IN IF ~up THEN [sign |-> sign, exponent |-> e + 1023, fraction |-> Tail(kept)]
     ELSE IF Len(sum) = 54
       THEN [sign |-> sign, exponent |-> e + 1024, fraction |-> SubSeq(sum, 2, 53)]
     ELSE [sign |-> sign, exponent |-> e + 1023, fraction |-> Tail(sum)]

\* a / b scaled by powers of two until b <= a < 2b: <<a, b, e>>, the quotient
\* being (a / b) * 2^e
RECURSIVE Align(_, _, _)
Align(a, b, e) ==
  IF a >= 2 * b THEN Align(a, 2 * b, e + 1)
  ELSE IF a < b THEN Align(2 * a, b, e - 1)
  ELSE <<a, b, e>>

\* Long division: the next n bits of r / b (r < b), followed by one bit that
\* tells whether a remainder is left
RECURSIVE DivBits(_, _, _)
DivBits(r, b, n) ==
  IF n = 0 THEN <<IF r # 0 THEN 1 ELSE 0>>
  ELSE IF 2 * r >= b THEN <<1>> \o DivBits(2 * r - b, b, n - 1)
  ELSE <<0>> \o DivBits(2 * r, b, n - 1)

\* int / int (b # 0): the correctly rounded quotient
TrueDivide(a, b) ==
  LET n == Align(IF a < 0 THEN -a ELSE a, IF b < 0 THEN -b ELSE b, 0)
  IN IF a = 0
     THEN [sign |-> IF b < 0 THEN 1 ELSE 0, exponent |-> 0, fraction |-> [i \in 1..52 |-> 0]]
     ELSE RoundDouble(IF (a < 0) # (b < 0) THEN 1 ELSE 0, n[3],
                      <<1>> \o DivBits(n[1] - n[2], n[2], 53))

\* ScanProgress.progress_percent: 0.0 when total_files is 0, else
\* (processed_files / total_files) * 100, the product of the quotient's
\* significand and 1100100b rounded again
ProgressPercent(progress) ==
  IF progress.total_files = 0
  THEN [sign |-> 0, exponent |-> 0, fraction |-> [i \in 1..52 |-> 0]]
  ELSE LET x == TrueDivide(progress.processed_files, progress.total_files)
           m == Reverse(<<1>> \o x.fraction)
           product == AddBits(AddBits(<<0, 0>> \o m, <<0, 0, 0, 0, 0>> \o m, 0),
                              <<0, 0, 0, 0, 0, 0>> \o m, 0)
       IN IF x.exponent = 0 THEN x
          ELSE RoundDouble(x.sign, x.exponent - 1023 - 52 + Len(product) - 1,
                           Reverse(product))

\* ScanProgress.is_complete
IsComplete(progress) == progress.processed_files >= progress.total_files

\* ScanProgress.add_error
AddError(progress, error) == [progress EXCEPT !.errors = Append(@, error)]

\* f"fast_scan_{datetime.now().isoformat()}" in scan_directory_fast,
\* f"full_scan_{...}" in scan_directory_full
ScanId(method, clock) ==
  <<IF method = "scan_directory_fast" THEN "fast_scan_" ELSE "full_scan_", clock>>

\* Variant of ScanRequestChecked: the scan options are not validated
ScanRequestChecked_OptionsUnchecked(v, st, options) ==
  IF v.exc # "none" THEN v.exc
  ELSE IF st.kind = "missing" THEN "ValueError"
  ELSE IF st.kind # "dir" THEN "ValueError"
  ELSE "none"

ScanRequestChecked(v, st, options) ==
  IF v.exc # "none" THEN v.exc
  ELSE IF st.kind = "missing" THEN "ValueError"
  ELSE IF st.kind # "dir" THEN "ValueError"
  ELSE IF options.max_files # None /\ options.max_files[1] <= 0 THEN "ValueError"
  ELSE IF options.batch_size <= 0 THEN "ValueError"
  ELSE "none"

\* validate_scan_request: the exception raised, "none" when it returns
ValidateScanRequest(c, directory_path, options) ==
  ScanRequestChecked(ValidatePathAccess(c, directory_path), Stat(directory_path), options)

\* The number of elements of seq[:stop] for a sequence of the given length (a
\* negative stop counts from the end)
SliceEnd(length, stop) ==
  IF stop >= length THEN length
  ELSE IF stop >= 0 THEN stop
  ELSE IF length + stop > 0 THEN length + stop
  ELSE 0

\* Variant of Truncate: the cut keeps one entry too many
Truncate_OffByOne(photo_files, max_files) ==
  IF max_files # None /\ max_files[1] # 0
  THEN SubSeq(photo_files, 1, SliceEnd(Len(photo_files), max_files[1] + 1))
  ELSE photo_files

\* photo_files[: options.max_files], applied when max_files is truthy
Truncate(photo_files, max_files) ==
  IF max_files # None /\ max_files[1] # 0
  THEN SubSeq(photo_files, 1, SliceEnd(Len(photo_files), max_files[1]))
  ELSE photo_files

\* Variant of ProcessedAt: the counter runs one ahead
ProcessedAt_OneAhead(i) == i + 2

\* progress.processed_files = i + 1 for the i-th file of enumerate() (i from 0)
ProcessedAt(i) == i + 1

IdleScan ==
  [pc |-> "idle", method |-> "", scan_id |-> <<>>, directory |-> <<>>,
   options |-> ScanOptions("", FALSE, None, 0, FALSE),
   photo_files |-> <<>>, i |-> 0, files |-> <<>>, progress |-> NewProgress,
   attempted |-> <<>>, callback_seen |-> <<>>, callback_raised |-> FALSE,
   cancel_hit |-> FALSE, cancel_mid |-> FALSE, begun_after_cancel |-> 0]

NoResult ==
  [scan_id |-> <<>>, status |-> "none", total_files |-> 0, processed_files |-> 0,
   successful_files |-> 0, failed_files |-> 0, files |-> <<>>, errors |-> <<>>]

\* The ScanResult of the "except Exception" branch
FailedResult(s, e) ==
  [scan_id |-> s.scan_id, status |-> "failed", total_files |-> 0, processed_files |-> 0,
   successful_files |-> 0, failed_files |-> 1, files |-> <<>>, errors |-> << <<e, <<>>>> >>]

\* The ScanResult returned after the loop: scan_directory_fast counts its
\* results, scan_directory_full its photo_files and progress.processed_files
CompletedResult(s) ==
  [scan_id |-> s.scan_id, status |-> "completed",
   total_files |-> IF s.method = "scan_directory_fast"
                   THEN Len(s.files) ELSE Len(s.photo_files),
   processed_files |-> IF s.method = "scan_directory_fast"
                       THEN Len(s.files) ELSE s.progress.processed_files,
   successful_files |-> s.progress.successful_files,
   failed_files |-> s.progress.failed_files,
   files |-> s.files, errors |-> s.progress.errors]

\* Variant of OnExtractionError: the except clause leaves the loop (break for continue)
OnExtractionError_Break(s, e) ==
  [s EXCEPT !.progress = [AddError(@, <<e, s.photo_files[s.i + 1].path>>)
                            EXCEPT !.failed_files = @ + 1],
            !.i = Len(s.photo_files),
            !.pc = "loop"]

\* The two except clauses around process_photo: record the error, count it, continue
OnExtractionError(s, e) ==
  [s EXCEPT !.progress = [AddError(@, <<e, s.photo_files[s.i + 1].path>>)
                            EXCEPT !.failed_files = @ + 1],
            !.i = @ + 1,
            !.pc = "loop"]

\* results.append(file_result); progress.successful_files += 1
OnFileDone(s) ==
  [s EXCEPT !.files = Append(@, s.photo_files[s.i + 1].path),
            !.progress.successful_files = @ + 1,
            !.i = @ + 1,
            !.pc = "loop"]

VARIABLES
  cfg,            \* the SecureFileSystemService in use
  request,        \* last path handed to validate_path_access
  outcome,        \* what that call returned or raised
  call,           \* last call of list_directory, get_file_info or the constructor, with its result
  now,            \* reading of datetime.now()
  active_scans,   \* _active_scans: scan id -> the scan whose ScanProgress it refers to
  scans,          \* per call of scan_directory_fast/full: its locals and position
  results         \* the ScanResult each call returned

vars == <<cfg, request, outcome, call, now, active_scans, scans, results>>

fsVars == <<request, outcome, call>>
scanVars == <<now, active_scans, scans, results>>

NoOutcome == [exc |-> "idle", rule |-> "", path |-> <<>>, value |-> FALSE]

NoCall == [op |-> "none"]

\* del d[key] / d[key] = value on the registry
Remove(registry, key) == [k \in DOMAIN registry \ {key} |-> registry[k]]
Put(registry, key, value) == [k \in DOMAIN registry \cup {key} |-> IF k = key THEN value ELSE registry[k]]

\* get_scan_progress
GetScanProgress(scan_id) ==
  IF scan_id \in DOMAIN active_scans THEN <<scans[active_scans[scan_id]].progress>> ELSE <<>>

\* list_active_scans
ListActiveScans == DOMAIN active_scans

Running(s) == s.pc \in {"enumerate", "loop", "callback", "infile"}

(***************************************************************************)
(* Actions of the file system service                                      *)
(***************************************************************************)
ValidateCall ==
  \E path \in CandidatePaths :
    /\ request' = path
    /\ outcome' = ValidatePathAccess(cfg, path)
    /\ call' = NoCall
    /\ UNCHANGED <<cfg, scanVars>>

\* list_directory and get_file_info are pure over a fixed filesystem: their
\* values for the inputs above, computed once (@@ <<>> makes each table explicit)
ListedEntries ==
  [c \in ServiceConfigs |->
     ([r \in ListDirs \X BOOLEAN \X ListDepths |-> ListDirectory(c, r[1], r[2], r[3])]
        @@ <<>>)] @@ <<>>

FileInfos ==
  [c \in ServiceConfigs |->
     ([file_path \in InfoPaths |-> GetFileInfo(c, file_path)] @@ <<>>)] @@ <<>>

\* list_directory(directory_path, recursive, max_depth)
ListCall ==
  \E directory_path \in ListDirs, recursive \in BOOLEAN, max_depth \in ListDepths :
    /\ call' = [op |-> "list", directory |-> directory_path, recursive |-> recursive,
                max_depth |-> max_depth,
                entries |-> ListedEntries[cfg][<<directory_path, recursive, max_depth>>]]
    /\ request' = <<>>
    /\ outcome' = NoOutcome
    /\ UNCHANGED <<cfg, scanVars>>

\* get_file_info(file_path)
InfoCall ==
  \E file_path \in InfoPaths :
    /\ call' = [op |-> "info", path |-> file_path, entry |-> FileInfos[cfg][file_path]]
    /\ request' = <<>>
    /\ outcome' = NoOutcome
    /\ UNCHANGED <<cfg, scanVars>>

RECURSIVE TotalSize(_)
\* sum(entry.size for entry in photo_files)
TotalSize(photo_files) ==
  IF photo_files = <<>> THEN 0 ELSE Head(photo_files).size + TotalSize(Tail(photo_files))

\* estimate_scan_size: get_photo_files does not raise (list_directory catches
\* every exception and returns []), so the estimate is always the normal
\* dictionary; error = "" stands for a dictionary without the "error" key
EstimateScanSize(c, directory_path, recursive, photo_files) ==
  [directory |-> directory_path, recursive |-> recursive, error |-> "",
   total_photo_files |-> Len(photo_files), total_size_bytes |-> TotalSize(photo_files)]

Estimates ==
  [c \in ServiceConfigs |->
     ([r \in ListDirs \X BOOLEAN |->
         EstimateScanSize(c, r[1], r[2], GetPhotoFiles(c, r[1], r[2]))] @@ <<>>)] @@ <<>>

\* SecureDirectoryScanner.estimate_scan_size(directory_path, recursive)
EstimateCall ==
  \E directory_path \in ListDirs, recursive \in BOOLEAN :
    /\ call' = [op |-> "estimate", directory |-> directory_path, recursive |-> recursive,
                estimate |-> Estimates[cfg][<<directory_path, recursive>>]]
    /\ request' = <<>>
    /\ outcome' = NoOutcome
    /\ UNCHANGED <<cfg, scanVars>>

\* SecureFileSystemService(allowed_directories)
ConstructCall ==
  \E roots \in RootLists :
    /\ call' = [op |-> "construct", roots |-> roots, exc |-> ConstructService(roots).exc,
                allowed_directories |-> ConstructService(roots).allowed_directories]
    /\ request' = <<>>
    /\ outcome' = NoOutcome
    /\ UNCHANGED <<cfg, scanVars>>

(***************************************************************************)
(* Actions of the scanner                                                  *)
(***************************************************************************)
\* The scanner over a service rooted at /p
ScanServiceConfigs ==
  { Constraints(<< <<n_p>> >>, FALSE, TRUE, TRUE) }

\* validate_scan_request and get_photo_files are pure over a fixed filesystem:
\* their values for the scan requests, computed once (@@ <<>> makes each table explicit)
ValidatedRequests ==
  [c \in ScanServiceConfigs |->
     ([r \in { [directory |-> q.directory, options |-> q.options] : q \in ScanRequests } |->
         ValidateScanRequest(c, r.directory, r.options)] @@ <<>>)] @@ <<>>

EnumeratedPhotoFiles ==
  [c \in ScanServiceConfigs |->
     ([r \in {<<q.directory, q.options.recursive>> : q \in ScanRequests} |->
         GetPhotoFiles(c, r[1], r[2])] @@ <<>>)] @@ <<>>

\* scan_id and progress are created (first two statements of the method)
Start(k) ==
  /\ scans[k].pc = "idle"
  /\ \E r \in ScanRequests :
       scans' = [scans EXCEPT ![k] = [IdleScan EXCEPT !.pc = "validate",
                                                      !.method = r.method,
                                                      !.scan_id = ScanId(r.method, now),
                                                      !.directory = r.directory,
                                                      !.options = r.options]]
  /\ UNCHANGED <<cfg, fsVars, now, active_scans, results>>

\* Variant of Register: the registry entry is created before validate_scan_request
Register_EntryFirst(k) ==
  LET s == scans[k]
      e == ValidatedRequests[cfg][[directory |-> s.directory, options |-> s.options]]
  IN /\ s.pc = "validate"
     /\ active_scans' = Put(active_scans, s.scan_id, k)
     /\ IF e # "none"
        THEN /\ results' = [results EXCEPT ![k] = FailedResult(s, e)]
             /\ scans' = [scans EXCEPT ![k].pc = "done"]
        ELSE /\ scans' = [scans EXCEPT ![k].pc = "enumerate"]
             /\ UNCHANGED results
     /\ UNCHANGED <<cfg, fsVars, now>>

\* validate_scan_request, then the registry entry is created
Register(k) ==
  LET s == scans[k]
      e == ValidatedRequests[cfg][[directory |-> s.directory, options |-> s.options]]
  IN /\ s.pc = "validate"
     /\ IF e # "none"
        THEN /\ results' = [results EXCEPT ![k] = FailedResult(s, e)]
             /\ scans' = [scans EXCEPT ![k].pc = "done"]
             /\ UNCHANGED active_scans
        ELSE /\ active_scans' = Put(active_scans, s.scan_id, k)
             /\ scans' = [scans EXCEPT ![k].pc = "enumerate"]
             /\ UNCHANGED results
     /\ UNCHANGED <<cfg, fsVars, now>>

\* get_photo_files, the max_files cut, progress.total_files
Enumerate(k) ==
  LET s == scans[k]
      photo_files == Truncate(EnumeratedPhotoFiles[cfg][<<s.directory, s.options.recursive>>],
                              s.options.max_files)
  IN /\ s.pc = "enumerate"
     /\ scans' = [scans EXCEPT ![k] = [s EXCEPT !.photo_files = photo_files,
                                                !.progress.total_files = Len(photo_files),
                                                !.i = 0,
                                                !.pc = "loop"]]
     /\ UNCHANGED <<cfg, fsVars, now, active_scans, results>>

\* Variant of CallbackSnapshot: the callback runs before the progress update
CallbackSnapshot_BeforeUpdate(s, updated) ==
  [processed_files |-> s.progress.processed_files,
   total_files |-> s.progress.total_files,
   current_file |-> s.progress.current_file]

\* What options.progress_callback(progress) reads from the ScanProgress it is
\* handed (s: the scan before the two assignments of the loop body, updated: after)
CallbackSnapshot(s, updated) ==
  [processed_files |-> updated.progress.processed_files,
   total_files |-> updated.progress.total_files,
   current_file |-> updated.progress.current_file]

\* Top of the loop body: progress update, then the progress callback, if
\* there is one, is called with the progress object
BeginFile(k) ==
  LET s == scans[k]
      updated == [s EXCEPT !.progress.current_file = <<s.photo_files[s.i + 1].path>>,
                           !.progress.processed_files = ProcessedAt(s.i),
                           !.begun_after_cancel = IF s.cancel_hit /\ @ < 2 THEN @ + 1 ELSE @]
  IN /\ s.pc = "loop"
     /\ s.i < Len(s.photo_files)
     /\ scans' = [scans EXCEPT ![k] =
                    IF s.options.progress_callback
                    THEN [updated EXCEPT !.callback_seen = Append(@, CallbackSnapshot(s, updated)),
                                         !.pc = "callback"]
                    ELSE [updated EXCEPT !.pc = "infile"]]
     /\ UNCHANGED <<cfg, fsVars, now, active_scans, results>>

\* options.progress_callback(progress) returns, or raises into the method's
\* "except Exception" branch; while it runs, the caller's code has control
CallbackReturn(k) ==
  LET s == scans[k]
  IN /\ s.pc = "callback"
     /\ \E raised \in BOOLEAN :
          IF raised
          THEN /\ scans' = [scans EXCEPT ![k] = [s EXCEPT !.callback_raised = TRUE,
                                                         !.pc = "done"]]
               /\ results' = [results EXCEPT ![k] = FailedResult(s, "CallbackError")]
          ELSE /\ scans' = [scans EXCEPT ![k].pc = "infile"]
               /\ UNCHANGED results
     /\ UNCHANGED <<cfg, fsVars, now, active_scans>>

\* Rest of the loop body: the record of scan_directory_fast, or process_photo
\* and its except clauses in scan_directory_full
EndFile(k) ==
  LET s == scans[k]
      tried == [s EXCEPT !.attempted = Append(@, s.photo_files[s.i + 1].path)]
  IN /\ s.pc = "infile"
     /\ IF s.method = "scan_directory_fast"
        THEN scans' = [scans EXCEPT ![k] = OnFileDone(s)]
        ELSE \E e \in {"none", "PhotoProcessingError", "Exception"} :
               scans' = [scans EXCEPT ![k] = IF e = "none" THEN OnFileDone(tried)
                                              ELSE OnExtractionError(tried, e)]
     /\ UNCHANGED <<cfg, fsVars, now, active_scans, results>>

\* After the loop: del self._active_scans[scan_id] (KeyError when absent), then the result
Finish(k) ==
  LET s == scans[k]
  IN /\ s.pc = "loop"
     /\ s.i >= Len(s.photo_files)
     /\ IF s.scan_id \in DOMAIN active_scans
        THEN /\ active_scans' = Remove(active_scans, s.scan_id)
             /\ results' = [results EXCEPT ![k] = CompletedResult(s)]
        ELSE /\ results' = [results EXCEPT ![k] = FailedResult(s, "KeyError")]
             /\ UNCHANGED active_scans
     /\ scans' = [scans EXCEPT ![k].pc = "done"]
     /\ UNCHANGED <<cfg, fsVars, now>>

\* cancel_scan: TRUE is returned exactly when the entry was there
CancelScan(scan_id) ==
  /\ IF scan_id \in DOMAIN active_scans
     THEN /\ active_scans' = Remove(active_scans, scan_id)
          /\ scans' = [k \in Scans |->
                         IF scans[k].scan_id = scan_id /\ Running(scans[k]) /\ ~scans[k].cancel_hit
                         THEN [scans[k] EXCEPT
                                 !.cancel_hit = TRUE,
                                 !.cancel_mid = scans[k].progress.processed_files
                                                  < scans[k].progress.total_files]
                         ELSE scans[k]]
     ELSE UNCHANGED <<active_scans, scans>>
  /\ UNCHANGED <<cfg, fsVars, now, results>>

\* Scan ids a caller can know: those handed out so far
KnownScanIds == {scans[k].scan_id : k \in {j \in Scans : scans[j].pc # "idle"}}

Cancel == \E scan_id \in KnownScanIds : CancelScan(scan_id)

\* The clock advances between two readings
Tick ==
  /\ now < MaxClock
  /\ now' = now + 1
  /\ UNCHANGED <<cfg, fsVars, active_scans, scans, results>>

(***************************************************************************)
(* list_directory step by step: one frame per active call of               *)
(* _list_directory_recursive, one step per iteration of its loop           *)
(***************************************************************************)
\* A call of _list_directory_recursive: iterdir() of the directory (nothing
\* when it raises PermissionError) and the call's current_depth
WalkFrame(directory, st, current_depth) ==
  [directory |-> directory,
   items |-> IF st.kind = "dir" /\ st.readable THEN IterDir(directory) ELSE <<>>,
   current_depth |-> current_depth]

\* Variant of WalkStarted: the policy's max_depth caps the caller's
WalkStarted_PolicyCapped(c, directory_path, recursive, max_depth, v) ==
  [op |-> "walk", directory |-> directory_path, recursive |-> recursive, max_depth |-> max_depth,
   bound |-> IF ~recursive THEN 0
             ELSE IF max_depth # 0 /\ max_depth < c.max_depth THEN max_depth
             ELSE c.max_depth,
   stack |-> IF v.exc # "none" THEN <<>>
             ELSE IF ~IsDir(v.path) THEN <<>>
             ELSE <<WalkFrame(v.path, Stat(v.path), 0)>>,
   entries |-> <<>>,
   walked |-> <<>>]

\* list_directory up to its call of _list_directory_recursive; v is the outcome
\* of validate_path_access.  walked records, for every entry appended, the
\* loop variable item it was made from (entries hold file_info.path, the
\* resolved path)
WalkStarted(c, directory_path, recursive, max_depth, v) ==
  [op |-> "walk", directory |-> directory_path, recursive |-> recursive, max_depth |-> max_depth,
   bound |-> IF ~recursive THEN 0 ELSE IF max_depth # 0 THEN max_depth ELSE c.max_depth,
   stack |-> IF v.exc # "none" THEN <<>>
             ELSE IF ~IsDir(v.path) THEN <<>>
             ELSE <<WalkFrame(v.path, Stat(v.path), 0)>>,
   entries |-> <<>>,
   walked |-> <<>>]

\* The loop of the innermost call moves on to its next item
WalkAdvance(stack) == [stack EXCEPT ![Len(stack)].items = Tail(@)]

\* Variant of WalkAccepted: descends while current_depth <= max_depth
WalkAccepted_OneDeeper(w, item, st, file_info) ==
  [w EXCEPT
     !.entries = IF file_info.access_level # "no_access" THEN Append(@, file_info) ELSE @,
     !.walked = IF file_info.access_level # "no_access" THEN Append(@, item) ELSE @,
     !.stack = IF /\ st.kind = "dir"
                  /\ w.stack[Len(w.stack)].current_depth <= w.bound
                  /\ file_info.access_level # "no_access"
                THEN Append(WalkAdvance(@),
                            WalkFrame(item, st, w.stack[Len(w.stack)].current_depth + 1))
                ELSE WalkAdvance(@)]

\* One iteration for an item that is not skipped: append, then recurse if allowed
WalkAccepted(w, item, st, file_info) ==
  [w EXCEPT
     !.entries = IF file_info.access_level # "no_access" THEN Append(@, file_info) ELSE @,
     !.walked = IF file_info.access_level # "no_access" THEN Append(@, item) ELSE @,
     !.stack = IF /\ st.kind = "dir"
                  /\ w.stack[Len(w.stack)].current_depth < w.bound
                  /\ file_info.access_level # "no_access"
                THEN Append(WalkAdvance(@),
                            WalkFrame(item, st, w.stack[Len(w.stack)].current_depth + 1))
                ELSE WalkAdvance(@)]

\* One iteration of the loop of _list_directory_recursive
WalkIteration(c, w, item, st, is_symlink) ==
  IF /\ StartsWith(PathName(item), <<".">>)
     /\ \/ st.kind = "dir" /\ c.skip_hidden_directories
        \/ st.kind = "file" /\ c.skip_hidden_files
    THEN [w EXCEPT !.stack = WalkAdvance(@)]
  ELSE IF is_symlink /\ ~c.follow_symlinks THEN [w EXCEPT !.stack = WalkAdvance(@)]
  ELSE WalkAccepted(w, item, st, GetFileInfo(c, item))

Walking == call.op = "walk" /\ call.stack # <<>>

\* list_directory is called
WalkStart ==
  /\ ~Walking
  /\ \E directory_path \in ListDirs, recursive \in BOOLEAN, max_depth \in ListDepths :
       call' = WalkStarted(cfg, directory_path, recursive, max_depth,
                           ValidatePathAccess(cfg, directory_path))
  /\ request' = <<>>
  /\ outcome' = NoOutcome
  /\ UNCHANGED <<cfg, scanVars>>

\* The innermost call handles its next item
WalkItem ==
  /\ Walking
  /\ call.stack[Len(call.stack)].items # <<>>
  /\ call' = WalkIteration(cfg, call, Head(call.stack[Len(call.stack)].items),
                           Stat(Head(call.stack[Len(call.stack)].items)),
                           IsSymlink(Head(call.stack[Len(call.stack)].items)))
  /\ UNCHANGED <<cfg, request, outcome, scanVars>>

\* The innermost call has no item left and returns
WalkReturn ==
  /\ Walking
  /\ call.stack[Len(call.stack)].items = <<>>
  /\ call' = [call EXCEPT !.stack = SubSeq(@, 1, Len(@) - 1)]
  /\ UNCHANGED <<cfg, request, outcome, scanVars>>

(***************************************************************************)
(* Specifications                                                          *)
(***************************************************************************)
ScanInit ==
  /\ now = 0
  /\ active_scans = <<>>
  /\ scans = [k \in Scans |-> IdleScan]
  /\ results = [k \in Scans |-> NoResult]

FsInit ==
  /\ request = <<>>
  /\ outcome = NoOutcome
  /\ call = NoCall

\* The file system service alone
InitFs ==
  /\ cfg \in ServiceConfigs
  /\ FsInit
  /\ ScanInit

NextFs ==
  \/ ValidateCall
  \/ ListCall
  \/ InfoCall
  \/ ConstructCall
  \/ EstimateCall

SpecFs == InitFs /\ [][NextFs]_vars

\* list_directory taken one loop iteration at a time; a call that has begun
\* keeps running (the method has no blocking step)
NextWalk ==
  \/ WalkStart
  \/ WalkItem
  \/ WalkReturn

SpecWalk == InitFs /\ [][NextWalk]_vars /\ WF_vars(WalkItem \/ WalkReturn)

Init ==
  /\ cfg \in ScanServiceConfigs
  /\ FsInit
  /\ ScanInit

Next ==
  \/ \E k \in Scans : Start(k)
  \/ \E k \in Scans : Register(k)
  \/ \E k \in Scans : Enumerate(k)
  \/ \E k \in Scans : BeginFile(k)
  \/ \E k \in Scans : CallbackReturn(k)
  \/ \E k \in Scans : EndFile(k)
  \/ \E k \in Scans : Finish(k)
  \/ Cancel
  \/ Tick

Spec == Init /\ [][Next]_vars

(***************************************************************************)
(* Properties of path validation (checked under SpecFs)                    *)
(***************************************************************************)
Called == outcome.exc # "idle"

Accepted == outcome.exc = "none" /\ outcome.value

\* The path is equal to, or a descendant of, an allowed root (by components)
Contained(c, path) ==
  \E i \in 1..Len(c.allowed_directories) : RelativeTo(path, c.allowed_directories[i])

\* Some component of the path, walked from an allowed root, is a symlink whose
\* resolved target is outside every allowed root
EscapingComponent(c, path) ==
  \E j \in 1..Len(path) :
    LET prefix == SubSeq(path, 1, j)
    IN /\ Contained(c, Parent(prefix))
       /\ IsSymlink(prefix)
       /\ \/ Resolve(prefix).exc # "none"
          \/ ~Contained(c, Resolve(prefix).path)

\* C1: validate_path_access returns True only for a path whose resolved form is
\* inside an allowed root, and a path that does not resolve into an allowed
\* root makes it raise FileSystemSecurityError.
C1_ContainmentOrSecurityError ==
  Called =>
    /\ Accepted => (Resolve(request).exc = "none" /\ Contained(cfg, Resolve(request).path))
    /\ ~(Resolve(request).exc = "none" /\ Contained(cfg, Resolve(request).path))
         => outcome.exc = "FileSystemSecurityError"

\* The containment half of C1 taken alone
AcceptedImpliesContained ==
  (Called /\ Accepted) => (Resolve(request).exc = "none" /\ Contained(cfg, Resolve(request).path))

\* C2: a path with a component that is a symlink leading outside every allowed
\* root is never accepted, wherever the component is and wherever the whole
\* path finally resolves.
C2_SymlinkEscapeRejected ==
  (Called /\ EscapingComponent(cfg, request)) => ~Accepted

\* C3: with follow_symlinks false every path that is itself a symlink is
\* rejected; with follow_symlinks true a symlink to a file that is itself
\* acceptable is accepted.
C3_SymlinkPolicy ==
  (Called /\ IsSymlink(request)) =>
    /\ ~cfg.follow_symlinks => outcome.exc = "FileSystemSecurityError"
    /\ (/\ cfg.follow_symlinks
        /\ Resolve(request).exc = "none"
        /\ IsFile(request)
        /\ ValidatePathAccess(cfg, Resolve(request).path).exc = "none") => Accepted

(***************************************************************************)
(* Properties of the scanner (checked under Spec)                          *)
(***************************************************************************)
Done(k) == scans[k].pc = "done"

Min(a, b) == IF a < b THEN a ELSE b

Paths(entries) == [j \in 1..Len(entries) |-> entries[j].path]

\* What get_photo_files yields for the request of scan k, before any cut
Eligible(k) ==
  EnumeratedPhotoFiles[cfg][<<scans[k].directory, scans[k].options.recursive>>]

\* The scan got past validation and enumerated its files
Enumerated(k) ==
  \/ scans[k].pc \in {"loop", "callback", "infile"}
  \/ /\ Done(k)
     /\ ValidatedRequests[cfg][[directory |-> scans[k].directory,
                                options |-> scans[k].options]] = "none"

\* The result of the except branch taken when the registry entry is gone at the final del
KeyErrorResult(k) == results[k].errors = << <<"KeyError", <<>>>> >>

\* C4: a scan cancelled before it had processed all its files ends Cancelled,
\* with processed_files < total_files, and its id is out of the registry.
C4_CancelledMidScan ==
  \A k \in Scans :
    (Done(k) /\ scans[k].cancel_mid) =>
      /\ results[k].status = "cancelled"
      /\ results[k].processed_files < results[k].total_files
      /\ scans[k].scan_id \notin ListActiveScans

\* C5: once cancel_scan has returned True for a running scan, its loop begins
\* at most one further file.
C5_CancelObservedBetweenFiles ==
  \A k \in Scans : scans[k].begun_after_cancel <= 1

\* C6: once a scan has returned its ScanResult its id is not in
\* list_active_scans() and get_scan_progress(id) is None.
C6_NoEntryAfterReturn ==
  \A k \in Scans :
    Done(k) => /\ scans[k].scan_id \notin ListActiveScans
               /\ GetScanProgress(scans[k].scan_id) = <<>>

\* C7: two scans started on the same scanner never have the same scan id.
C7_ScanIdsUnique ==
  \A k1, k2 \in Scans :
    (k1 # k2 /\ scans[k1].pc # "idle" /\ scans[k2].pc # "idle")
      => scans[k1].scan_id # scans[k2].scan_id

\* C8: a full-metadata scan that runs to the end of its loop with its registry
\* entry in place ends Completed having attempted every accepted file, one
\* error per failed extraction, and successful + failed = processed = n.
C8_PartialFailureIsolation ==
  \A k \in Scans :
    (/\ Done(k)
     /\ scans[k].method = "scan_directory_full"
     /\ Enumerated(k)
     /\ ~scans[k].callback_raised
     /\ ~KeyErrorResult(k)) =>
      /\ results[k].status = "completed"
      /\ scans[k].attempted = Paths(scans[k].photo_files)
      /\ Len(results[k].errors) = results[k].failed_files
      /\ Len(results[k].files) = results[k].successful_files
      /\ results[k].successful_files + results[k].failed_files = results[k].processed_files
      /\ results[k].processed_files = Len(scans[k].photo_files)

C8_Witness ==
  \E k \in Scans :
    /\ Done(k)
    /\ scans[k].method = "scan_directory_full"
    /\ results[k].status = "completed"
    /\ Len(scans[k].photo_files) = 2
    /\ results[k].failed_files = 1
    /\ results[k].files = <<scans[k].photo_files[2].path>>

\* C9: processed_files of a scan never decreases, stays within 0..total_files,
\* and progress_percent stays within 0..100, being 0 when total_files is 0.
\* The floats 0.0 and 100.0 (1.1001b * 2^6)
Float0 == [sign |-> 0, exponent |-> 0, fraction |-> [i \in 1..52 |-> 0]]

Float100 ==
  [sign |-> 0, exponent |-> 1029,
   fraction |-> [i \in 1..52 |-> IF i \in {1, 4} THEN 1 ELSE 0]]

\* x <= y for floats that are not negative
FloatLeq(x, y) ==
  /\ x.sign = 0
  /\ y.sign = 0
  /\ \/ x.exponent < y.exponent
     \/ /\ x.exponent = y.exponent
        /\ \/ x.fraction = y.fraction
           \/ \E i \in 1..52 : /\ x.fraction[i] < y.fraction[i]
                                /\ \A j \in 1..(i - 1) : x.fraction[j] = y.fraction[j]

\* progress_percent of every pair of counters a scan of World can show
PercentOf ==
  [processed \in 0..Len(World), total \in 0..Len(World) |->
     ProgressPercent([processed_files |-> processed, total_files |-> total])] @@ <<>>

Percent(progress) == PercentOf[progress.processed_files, progress.total_files]

C9_ProgressInRange ==
  \A k \in Scans :
    LET progress == scans[k].progress
    IN /\ 0 <= progress.processed_files
       /\ progress.processed_files <= progress.total_files
       /\ FloatLeq(Float0, Percent(progress))
       /\ FloatLeq(Percent(progress), Float100)
       /\ progress.total_files = 0 => Percent(progress) = Float0

C9_ProgressMonotone ==
  [] C9_ProgressInRange
  /\ [][\A k \in Scans :
          scans'[k].progress.processed_files >= scans[k].progress.processed_files]_vars

C9_Witness ==
  \E k \in Scans :
    /\ scans[k].pc = "infile"
    /\ scans[k].progress.processed_files = 2
    /\ scans[k].progress.total_files = 2
    /\ Percent(scans[k].progress) = Float100

\* C10: with max_files = m > 0 and e eligible files, total_files is min(m, e)
\* from the first processed file on, the files processed are the first ones in
\* enumeration order, and a completed fast scan lists exactly the first min(m, e).
C10_MaxFilesCut ==
  \A k \in Scans :
    (Enumerated(k) /\ scans[k].options.max_files # None /\ scans[k].options.max_files[1] > 0) =>
      LET m == scans[k].options.max_files[1]
          e == Len(Eligible(k))
      IN /\ scans[k].progress.total_files = Min(m, e)
         /\ Len(scans[k].photo_files) = Min(m, e)
         /\ scans[k].photo_files = SubSeq(Eligible(k), 1, Min(m, e))
         /\ Len(scans[k].files) <= Min(m, e)
         /\ \A j \in 1..Len(scans[k].files) : \E i \in 1..Min(m, e) :
              scans[k].files[j] = Eligible(k)[i].path
         /\ (Done(k) /\ results[k].status = "completed") =>
              /\ results[k].total_files = Min(m, e)
              /\ scans[k].method = "scan_directory_fast" =>
                   results[k].files = Paths(SubSeq(Eligible(k), 1, Min(m, e)))

C10_Witness ==
  \E k \in Scans :
    /\ Done(k)
    /\ results[k].status = "completed"
    /\ scans[k].options.max_files = <<2>>
    /\ Len(Eligible(k)) = 3
    /\ Len(results[k].files) = 2

\* The root of scan k fails validate_path_access with a security violation
RootRejected(k) ==
  /\ scans[k].pc # "idle"
  /\ ValidatedRequests[cfg][[directory |-> scans[k].directory,
                             options |-> scans[k].options]] = "FileSystemSecurityError"

\* C11: a scan whose root fails path validation never enumerates a directory,
\* never processes a file, never gets a registry entry, and returns a Failed
\* ScanResult whose errors hold the violation.
C11_RootRejectionIsFatal ==
  \A k \in Scans :
    RootRejected(k) =>
      /\ scans[k].pc \in {"validate", "done"}
      /\ scans[k].photo_files = <<>>
      /\ scans[k].files = <<>>
      /\ scans[k].attempted = <<>>
      /\ scans[k].progress.processed_files = 0
      /\ \A id \in DOMAIN active_scans : active_scans[id] # k
      /\ Done(k) =>
           /\ results[k].status = "failed"
           /\ results[k].errors = << <<"FileSystemSecurityError", <<>>>> >>
           /\ results[k].files = <<>>
           /\ results[k].processed_files = 0

C11_Witness ==
  \E k \in Scans :
    /\ Done(k)
    /\ scans[k].directory = <<n_p, DOTDOT, n_o>>
    /\ RootRejected(k)
    /\ results[k].status = "failed"

(***************************************************************************)
(* Properties of listing, classification and construction (under SpecFs)   *)
(***************************************************************************)
Listed == call.op = "list"

\* Symlinks located in an allowed root that lead to a directory outside every allowed root
OutsideLinks(c) ==
  { World[i].path : i \in { j \in 1..Len(World) :
      /\ World[j].kind = "link"
      /\ Contained(c, World[j].path)
      /\ Resolve(World[j].path).exc = "none"
      /\ IsDir(World[j].path)
      /\ ~Contained(c, Resolve(World[j].path).path) } }

\* No entry is the symlink itself or lies at or beneath its target
AvoidsOutsideLinks(c, entries) ==
  \A i \in 1..Len(entries) : \A link \in OutsideLinks(c) :
    /\ entries[i].path # link
    /\ ~RelativeTo(entries[i].path, Resolve(link).path)

\* C12: a recursive listing, and the photo files a scan is given, hold no entry
\* for a symlink that leads to a directory outside every allowed root and no
\* entry beneath its target, with follow_symlinks false or true.
C12_OutsideSymlinkExcluded ==
  (Listed /\ call.recursive) =>
    /\ AvoidsOutsideLinks(cfg, call.entries)
    /\ AvoidsOutsideLinks(cfg, GetPhotoFiles(cfg, call.directory, TRUE))

C12_Witness ==
  /\ Listed
  /\ call.recursive
  /\ cfg.follow_symlinks
  /\ call.directory = <<n_p>>
  /\ <<n_p, n_e>> \in OutsideLinks(cfg)
  /\ Len(call.entries) > 3

\* C13: the recursion bound list_directory uses is the smaller of the policy's
\* max_depth and the caller's max_depth, so the entries are those of the walk
\* from the listed directory cut at that bound.
C13_DepthIsSmallerBound ==
  (/\ Listed
   /\ call.recursive
   /\ call.max_depth # 0
   /\ ValidatePathAccess(cfg, call.directory).exc = "none"
   /\ IsDir(call.directory)) =>
    call.entries = ListDirectoryRecursive(cfg, Resolve(call.directory).path,
                                          0, Min(cfg.max_depth, call.max_depth))

\* C14: the constructor returns exactly when the allowed-directory list is
\* non-empty and every entry exists, is a directory and is readable; otherwise
\* it raises FileSystemSecurityError.
C14_ConstructionValidated ==
  call.op = "construct" =>
    /\ call.exc \in {"none", "FileSystemSecurityError"}
    /\ call.exc = "none" <=>
         /\ call.roots # <<>>
         /\ \A i \in 1..Len(call.roots) :
              Exists(call.roots[i]) /\ IsDir(call.roots[i]) /\ Readable(call.roots[i])

\* The part of C14 about the entries of a non-empty list, which the
\* constructor checks on their resolved form
NonEmptyRootsValidated ==
  (call.op = "construct" /\ call.roots # <<>> /\ call.exc = "none") =>
    /\ Len(call.allowed_directories) = Len(call.roots)
    /\ \A i \in 1..Len(call.roots) :
         /\ call.allowed_directories[i] = Resolve(call.roots[i]).path
         /\ Exists(call.allowed_directories[i])
         /\ IsDir(call.allowed_directories[i])
         /\ Readable(call.allowed_directories[i])

Informed == call.op = "info"

\* The file passes every check of get_file_info but the extension filter
OnlyExtensionMismatch(c, path) ==
  /\ ValidatePathAccess(c, path).exc = "none"
  /\ IsFile(path)
  /\ Stat(path).size <= c.max_file_size_mb * 1024 * 1024
  /\ Readable(path)
  /\ Lower(PathSuffix(Resolve(path).path)) \notin c.allowed_extensions

\* C15: get_file_info always returns an entry, and an entry classified
\* no_access carries a non-empty error unless an extension mismatch is the
\* only reason for the classification.
C15_NoAccessCarriesReason ==
  Informed =>
    /\ call.entry.access_level \in {"no_access", "read_only"}
    /\ (call.entry.access_level = "no_access" /\ call.entry.error = "")
         => OnlyExtensionMismatch(cfg, call.path)

\* The part of C15 about security violations and missing files (a file is
\* looked for at the normalized path)
ViolationCarriesReason ==
  (Informed /\ \/ ValidatePathAccess(cfg, call.path).exc # "none"
               \/ ~Exists(ValidatePathAccess(cfg, call.path).path)) =>
    call.entry.access_level = "no_access" /\ call.entry.error # ""

\* C16: a non-directory entry is read_only only if its extension is allowed,
\* its size is within the limit, it is readable and, when the path is a
\* symlink, follow_symlinks is true and the target is inside an allowed root;
\* a directory that passes validation is read_only; classifying the same path
\* again gives the same access level.
C16_ReadOnlyConditions ==
  Informed =>
    /\ (~call.entry.is_directory /\ call.entry.access_level = "read_only") =>
         /\ Lower(PathSuffix(call.entry.path)) \in cfg.allowed_extensions
         /\ call.entry.size <= cfg.max_file_size_mb * 1024 * 1024
         /\ Readable(call.path)
         /\ IsSymlink(call.path) =>
              /\ cfg.follow_symlinks
              /\ Resolve(call.path).exc = "none"
              /\ Contained(cfg, Resolve(call.path).path)
    /\ (ValidatePathAccess(cfg, call.path).exc = "none" /\ IsDir(call.path)) =>
         (call.entry.is_directory /\ call.entry.access_level = "read_only")
    /\ GetFileInfo(cfg, call.path).access_level = call.entry.access_level

\* C16 without the symlink policy
ReadOnlyButSymlinkPolicy ==
  Informed =>
    /\ (~call.entry.is_directory /\ call.entry.access_level = "read_only") =>
         /\ Lower(PathSuffix(call.entry.path)) \in cfg.allowed_extensions
         /\ call.entry.size <= cfg.max_file_size_mb * 1024 * 1024
         /\ Readable(call.path)
         /\ Resolve(call.path).exc = "none"
         /\ Contained(cfg, Resolve(call.path).path)
    /\ (ValidatePathAccess(cfg, call.path).exc = "none" /\ IsDir(call.path)) =>
         (call.entry.is_directory /\ call.entry.access_level = "read_only")
    /\ GetFileInfo(cfg, call.path).access_level = call.entry.access_level

(***************************************************************************)
(* Further properties of the scanner (checked under Spec)                  *)
(***************************************************************************)
\* Directories of the scan requests that pass validate_path_access and are directories
ValidScanRoots ==
  [c \in ScanServiceConfigs |->
     { d \in { r.directory : r \in ScanRequests } :
         ValidatePathAccess(c, d).exc = "none" /\ IsDir(d) }] @@ <<>>

InvalidOptions(k) ==
  /\ scans[k].pc # "idle"
  /\ \/ scans[k].options.batch_size <= 0
     \/ scans[k].options.max_files # None /\ scans[k].options.max_files[1] <= 0

\* C17: validate_scan_request rejects batch_size <= 0 and a max_files <= 0
\* (ValueError when the directory is valid); a scan started with such options
\* enumerates and processes nothing and does not end Completed.
C17_InvalidOptionsRejected ==
  \A k \in Scans :
    InvalidOptions(k) =>
      /\ ValidatedRequests[cfg][[directory |-> scans[k].directory,
                                 options |-> scans[k].options]] # "none"
      /\ scans[k].directory \in ValidScanRoots[cfg] =>
           ValidatedRequests[cfg][[directory |-> scans[k].directory,
                                   options |-> scans[k].options]] = "ValueError"
      /\ scans[k].pc \in {"validate", "done"}
      /\ scans[k].photo_files = <<>>
      /\ scans[k].files = <<>>
      /\ scans[k].attempted = <<>>
      /\ scans[k].progress.processed_files = 0
      /\ Done(k) => (results[k].status = "failed" /\ results[k].files = <<>>)

C17_Witness ==
  \E k1, k2 \in Scans :
    /\ Done(k1) /\ Done(k2)
    /\ scans[k1].options.max_files = <<0>>
    /\ scans[k2].options.batch_size = 0
    /\ scans[k1].directory \in ValidScanRoots[cfg]
    /\ scans[k2].directory \in ValidScanRoots[cfg]
    /\ results[k1].errors = << <<"ValueError", <<>>>> >>
    /\ results[k2].errors = << <<"ValueError", <<>>>> >>

\* Subdirectories a recursive walk of the request lists but cannot enumerate
\* (iterdir() raises PermissionError)
SkippedSubdirectories ==
  [c \in ScanServiceConfigs |->
     ([r \in { q.directory : q \in ScanRequests } |->
         LET entries == ListDirectory(c, r, TRUE, 0)
         IN { entries[i].path : i \in { j \in 1..Len(entries) :
                entries[j].is_directory /\ ~Readable(entries[j].path) } }] @@ <<>>)] @@ <<>>

\* A recursive scan that enumerated its files and returned from the end of its loop
RecursiveScanReturned(k) ==
  /\ Done(k)
  /\ Enumerated(k)
  /\ scans[k].options.recursive
  /\ ~scans[k].callback_raised
  /\ ~KeyErrorResult(k)

\* C18: when a subdirectory cannot be enumerated during a scan, the scan still
\* ends Completed with the files outside that subtree, and its errors list
\* holds an error that names the subdirectory.
C18_SubtreeFailureRecorded ==
  \A k \in Scans :
    RecursiveScanReturned(k) =>
      /\ results[k].status = "completed"
      /\ \A d \in SkippedSubdirectories[cfg][scans[k].directory] :
           /\ \A j \in 1..Len(Eligible(k)) : ~RelativeTo(Eligible(k)[j].path, d)
           /\ \E j \in 1..Len(results[k].errors) : results[k].errors[j][2] = d

\* The part of C18 about skipping: the subtree contributes nothing, the files
\* of a sibling directory and of the listed directory are enumerated, and the
\* scan ends Completed
SubtreeFailureNotFatal ==
  \A k \in Scans :
    (RecursiveScanReturned(k) /\ scans[k].directory = <<n_p>>) =>
      /\ results[k].status = "completed"
      /\ SkippedSubdirectories[cfg][scans[k].directory] = { <<n_p, n_b>> }
      /\ \A j \in 1..Len(Eligible(k)) : ~RelativeTo(Eligible(k)[j].path, <<n_p, n_b>>)
      /\ Paths(Eligible(k)) = << <<n_p, n_ajpg>>, <<n_p, n_s, n_bjpg>>, <<n_p, n_cpng>> >>

\* C19: a scan with a progress callback that ends Completed has invoked it
\* once per processed file, in enumeration order; the i-th invocation sees
\* processed_files = i and the file being processed, the invocations number
\* total_files, and the last one sees progress_percent = 100.
C19_CallbackPerFile ==
  \A k \in Scans :
    (/\ Done(k)
     /\ results[k].status = "completed"
     /\ scans[k].options.progress_callback) =>
      LET seen == scans[k].callback_seen
      IN /\ Len(seen) = scans[k].progress.total_files
         /\ Len(seen) = results[k].total_files
         /\ \A i \in 1..Len(seen) :
              /\ seen[i].processed_files = i
              /\ seen[i].total_files = Len(scans[k].photo_files)
              /\ seen[i].current_file = <<scans[k].photo_files[i].path>>
         /\ Len(seen) > 0 => Percent(seen[Len(seen)]) = Float100

C19_Witness ==
  \E k \in Scans :
    /\ Done(k)
    /\ results[k].status = "completed"
    /\ scans[k].options.progress_callback
    /\ Len(scans[k].callback_seen) = 2
    /\ scans[k].callback_seen[2].current_file = << <<n_p, n_s, n_bjpg>> >>

\* C20: a progress callback that raises does not abort the scan: the scan
\* returns Completed having processed all its files, and its registry entry
\* is removed.
C20_CallbackAdvisory ==
  \A k \in Scans :
    (Done(k) /\ scans[k].callback_raised /\ ~scans[k].cancel_hit) =>
      /\ results[k].status = "completed"
      /\ results[k].processed_files = Len(scans[k].photo_files)
      /\ \A id \in DOMAIN active_scans : active_scans[id] # k

(***************************************************************************)
(* System directories, dangerous file types, raw-string checks, hidden     *)
(* entries and normalisation (checked under SpecFs)                        *)
(***************************************************************************)
\* The path is /etc or lies under it (the system directory of this filesystem)
SystemPath(path) == Len(path) >= 1 /\ path[1] = n_etc

\* C21: whatever the allowed roots are, a path whose normalised form is equal to
\* or under a system directory is rejected, and the system-directory rule
\* rejects only such paths.
C21_SystemDenylist ==
  Called =>
    /\ (Resolve(request).exc = "none" /\ SystemPath(Resolve(request).path))
         => outcome.exc = "FileSystemSecurityError"
    /\ outcome.rule = "Access to system directory denied" => SystemPath(Resolve(request).path)

\* What the denylist does guarantee: everything strictly under /etc is rejected
SystemDescendantRejected ==
  (Called /\ Resolve(request).exc = "none" /\ SystemPath(Resolve(request).path)
     /\ Len(Resolve(request).path) >= 2)
    => outcome.exc = "FileSystemSecurityError"

\* The suffix is a dangerous extension that the allow-list does not contain
DangerousSuffix(c, path) ==
  /\ Lower(PathSuffix(path)) \in DangerousExtensions
  /\ Lower(PathSuffix(path)) \notin c.allowed_extensions

\* C22: the dangerous-extension rule rejects exactly existing regular files
\* whose lower-cased suffix is dangerous and not in allowed_extensions; it never
\* rejects a path that does not exist, a directory, or a suffix the allow-list
\* contains.
C22_DangerousFilesOnly ==
  Called =>
    /\ outcome.rule = "Dangerous file type not allowed"
         => /\ Resolve(request).exc = "none"
            /\ IsFile(Resolve(request).path)
            /\ DangerousSuffix(cfg, Resolve(request).path)
    /\ Accepted => ~(IsFile(Resolve(request).path) /\ DangerousSuffix(cfg, Resolve(request).path))

\* The rule as the code applies it: to whatever exists, file or directory
DangerousRuleOnExistingPaths ==
  Called =>
    /\ outcome.rule = "Dangerous file type not allowed"
         => /\ Resolve(request).exc = "none"
            /\ Exists(Resolve(request).path)
            /\ DangerousSuffix(cfg, Resolve(request).path)
    /\ Accepted => ~(Exists(Resolve(request).path) /\ DangerousSuffix(cfg, Resolve(request).path))

\* The traversal, encoding and UNC/device markers the raw string is searched for
RawMarkers ==
  { <<".", ".", "/">>, <<".", ".", "\\">>, <<"%", "2", "e", "%", "2", "e">>,
    <<"%", "2", "f">>, <<"%", "5", "c">>, <<"\\", "\\", "?", "\\">>, <<"\\", "\\", ".">> }

HasNullByte(path_str) == \E i \in 1..Len(path_str) : path_str[i] = NUL

HasRawMarker(path_str) == \E marker \in RawMarkers : Contains(Lower(path_str), marker)

\* C23: a candidate whose raw string holds a NUL byte, is longer than
\* max_path_length, or contains a traversal, percent-encoded or UNC/device
\* marker (case-insensitively) is rejected with FileSystemSecurityError wherever
\* it would resolve; the checks run in that order and the first that fails is
\* the one reported.
C23_RawStringChecksFirst ==
  Called =>
    /\ HasNullByte(PathStr(request))
         => outcome = Raise("FileSystemSecurityError", "Null byte detected in path")
    /\ (~HasNullByte(PathStr(request)) /\ Len(PathStr(request)) > cfg.max_path_length)
         => outcome = Raise("FileSystemSecurityError", "Path too long")
    /\ (/\ ~HasNullByte(PathStr(request))
        /\ Len(PathStr(request)) <= cfg.max_path_length
        /\ HasRawMarker(PathStr(request)))
         => outcome = Raise("FileSystemSecurityError", "Suspicious path pattern detected")

\* A path over the length limit that also contains '../' and would resolve to a
\* file inside the root is reported as too long
C23_Witness ==
  /\ Called
  /\ request = <<n_p, n_s, DOTDOT, n_ajpg>>
  /\ Len(PathStr(request)) > cfg.max_path_length
  /\ HasRawMarker(PathStr(request))
  /\ Contained(cfg, Resolve(request).path)
  /\ outcome.rule = "Path too long"

\* The final component is a name that starts with a dot ('..' is not a name)
HiddenName(path) == path # <<>> /\ PathName(path)[1] = "." /\ PathName(path) # DOTDOT

\* The policy hides the path: a hidden file under skip_hidden_files, a hidden
\* directory under skip_hidden_directories
HiddenByPolicy(c, path) ==
  /\ HiddenName(path)
  /\ \/ IsFile(path) /\ c.skip_hidden_files
     \/ IsDir(path) /\ c.skip_hidden_directories

ShowHidden(c) == [c EXCEPT !.skip_hidden_files = FALSE, !.skip_hidden_directories = FALSE]

\* No entry is hidden by the policy and none lies beneath a hidden directory
NoHiddenEntries(c, entries) ==
  \A i \in 1..Len(entries) :
    /\ ~HiddenByPolicy(c, entries[i].path)
    /\ c.skip_hidden_directories
         => \A j \in 1..(Len(entries[i].path) - 1) : ~HiddenName(SubSeq(entries[i].path, 1, j))

\* C24: validate_path_access rejects a contained path whose final component
\* starts with '.' when it is a file and skip_hidden_files is true or a
\* directory and skip_hidden_directories is true, accepts a path it rejected as
\* hidden once the flag is false, and a recursive listing returns no hidden
\* entry and nothing beneath a hidden directory.
C24_HiddenPolicy ==
  /\ (Called /\ Contained(cfg, request) /\ HiddenByPolicy(cfg, request))
       => outcome.exc = "FileSystemSecurityError"
  /\ (Called /\ outcome.rule \in {"Hidden files not allowed", "Hidden directories not allowed"})
       => ValidatePathAccess(ShowHidden(cfg), request) = Return(Resolve(request).path, TRUE)
  /\ (Listed /\ call.recursive) => NoHiddenEntries(cfg, call.entries)

\* The same with the hidden name looked for on the resolved path, which is
\* where validate_path_access looks for it
HiddenPolicyOnResolvedPath ==
  /\ (Called /\ Resolve(request).exc = "none" /\ Contained(cfg, Resolve(request).path)
        /\ HiddenByPolicy(cfg, Resolve(request).path))
       => outcome.exc = "FileSystemSecurityError"
  /\ (Called /\ outcome.rule \in {"Hidden files not allowed", "Hidden directories not allowed"})
       => ValidatePathAccess(ShowHidden(cfg), request) = Return(Resolve(request).path, TRUE)
  /\ (Listed /\ call.recursive) => NoHiddenEntries(cfg, call.entries)

\* Some component before the last is '..'
InteriorDotDot(path) == \E j \in 1..(Len(path) - 1) : path[j] = DOTDOT

\* C25: for a path inside an allowed root with an interior '..'
\* (root/subdir/../file.jpg) _normalize_path returns the canonical absolute path
\* (root/file.jpg) instead of rejecting the path.
C25_InteriorDotDotResolved ==
  (/\ Called
   /\ InteriorDotDot(request)
   /\ Contained(cfg, request)
   /\ Resolve(request).exc = "none"
   /\ Contained(cfg, Resolve(request).path)
   /\ ~HasNullByte(PathStr(request))
   /\ Len(PathStr(request)) <= cfg.max_path_length)
    => NormalizePath(cfg, request) = Return(Resolve(request).path, TRUE)

\* A '..' that ends the path leaves no '../' in the string and is resolved
FinalDotDotResolved ==
  (/\ Called
   /\ request # <<>>
   /\ PathName(request) = DOTDOT
   /\ ~InteriorDotDot(request)
   /\ Len(PathStr(request)) <= cfg.max_path_length)
    => NormalizePath(cfg, request) = Return(Parent(Parent(request)), TRUE)

(***************************************************************************)
(* Enumeration during a scan (checked under Spec)                          *)
(***************************************************************************)
\* What list_directory returns for the directory and recursive flag of each request
ScanListings ==
  [c \in ScanServiceConfigs |->
     ([r \in {<<q.directory, q.options.recursive>> : q \in ScanRequests} |->
         ListDirectory(c, r[1], r[2], 0)] @@ <<>>)] @@ <<>>

\* The children, at any depth below the directory, that get_file_info classifies NO_ACCESS
ExcludedChildren ==
  [c \in ScanServiceConfigs |->
     ([d \in { q.directory : q \in ScanRequests } |->
         { World[i].path : i \in { j \in 1..Len(World) :
             /\ World[j].path # d
             /\ RelativeTo(World[j].path, d)
             /\ GetFileInfo(c, World[j].path).access_level = "no_access" } }] @@ <<>>)] @@ <<>>

\* C26: a child that fails validation or classification is excluded and is not
\* a scan error: the listing holds no NO_ACCESS entry and nothing at or beneath
\* an excluded child, get_photo_files yields only non-directory READ_ONLY
\* entries with an allowed extension, and a scan that returns from its loop is
\* Completed with no error for an excluded child.
C26_ExcludedChildIsNotAnError ==
  \A k \in Scans :
    /\ Enumerated(k) =>
         LET listing == ScanListings[cfg][<<scans[k].directory, scans[k].options.recursive>>]
             excluded == ExcludedChildren[cfg][scans[k].directory]
         IN /\ \A i \in 1..Len(listing) :
                 /\ listing[i].access_level # "no_access"
                 /\ \A d \in excluded : ~RelativeTo(listing[i].path, d)
            /\ \A j \in 1..Len(Eligible(k)) :
                 /\ ~Eligible(k)[j].is_directory
                 /\ Eligible(k)[j].access_level = "read_only"
                 /\ Lower(PathSuffix(Eligible(k)[j].path)) \in cfg.allowed_extensions
                 /\ \E i \in 1..Len(listing) : listing[i] = Eligible(k)[j]
    /\ (Done(k) /\ Enumerated(k) /\ ~scans[k].callback_raised /\ ~KeyErrorResult(k)) =>
         /\ results[k].status = "completed"
         /\ \A j \in 1..Len(results[k].errors) :
              \A d \in ExcludedChildren[cfg][scans[k].directory] :
                ~RelativeTo(results[k].errors[j][2], d)

\* A recursive scan of /p, which holds children rejected by validation (the
\* directory /p/s/r.sh, the symlink /p/e), by size (/p/g.jpg) and by extension
\* (/p/n.txt), ends Completed with files and no error
C26_Witness ==
  \E k \in Scans :
    /\ Done(k)
    /\ scans[k].directory = <<n_p>>
    /\ scans[k].options.recursive
    /\ { <<n_p, n_s, n_rsh>>, <<n_p, n_e>>, <<n_p, n_gjpg>>, <<n_p, n_ntxt>> }
         \subseteq ExcludedChildren[cfg][<<n_p>>]
    /\ results[k].status = "completed"
    /\ results[k].errors = <<>>
    /\ Len(results[k].files) >= 2

(***************************************************************************)
(* Depth of a listing (checked under SpecWalk)                             *)
(***************************************************************************)
\* How many levels below root the directory that contains the path lies
ContainingLevel(path, root) == Len(path) - Len(root) - 1

(***************************************************************************)
(* Termination of a listing (checked under SpecWalk)                       *)
(***************************************************************************)
WalkReturned == call.op = "walk" /\ call.stack = <<>>

\* The loop of _list_directory_recursive passes the item over: a hidden name
\* or a symlink the policy skips
SkippedItem(c, item) ==
  \/ /\ StartsWith(PathName(item), <<".">>)
     /\ \/ IsDir(item) /\ c.skip_hidden_directories
        \/ IsFile(item) /\ c.skip_hidden_files
  \/ IsSymlink(item) /\ ~c.follow_symlinks

\* The accepted entries of one directory: its items that are not passed over
\* and that get_file_info classifies other than NO_ACCESS (a directory that
\* cannot be read has none)
AcceptedChildren(c, directory) ==
  IF ~(IsDir(directory) /\ Readable(directory)) THEN {}
  ELSE { item \in { IterDir(directory)[i] : i \in 1..Len(IterDir(directory)) } :
           ~SkippedItem(c, item) /\ GetFileInfo(c, item).access_level # "no_access" }

\* The accepted entries whose containing directory is exactly the given number
\* of levels below root: the accepted entries of the accepted directories one
\* level up
RECURSIVE AcceptedAtLevel(_, _, _)
AcceptedAtLevel(c, root, level) ==
  IF level = 0 THEN AcceptedChildren(c, root)
  ELSE UNION { AcceptedChildren(c, directory) :
                 directory \in { q \in AcceptedAtLevel(c, root, level - 1) : IsDir(q) } }

\* The listing has returned from a root that passed validation
WalkedFromRoot ==
  /\ WalkReturned
  /\ ValidatePathAccess(cfg, call.directory).exc = "none"
  /\ IsDir(ValidatePathAccess(cfg, call.directory).path)

\* C27: list_directory(root, recursive=True, max_depth=d) with d >= 1 returns
\* one entry for every accepted item whose containing directory is at most d
\* levels below root (root is level 0) and for no other item, and with
\* recursive=False for root's accepted direct children only.  Levels are
\* counted on the paths the walk takes (root joined with the names it iterates
\* over), whatever the symlink policy; an entry carries the resolved form of
\* that path, which is the same path when symlinks are not followed.
C27_DepthBoundsListing ==
  (WalkedFromRoot /\ (call.recursive => call.max_depth >= 1)) =>
    LET root == ValidatePathAccess(cfg, call.directory).path
        d == IF call.recursive THEN call.max_depth ELSE 0
        walked == call.walked
    IN /\ Len(call.entries) = Len(walked)
       /\ \A i \in 1..Len(walked) :
            /\ call.entries[i] = GetFileInfo(cfg, walked[i])
            /\ RelativeTo(walked[i], root)
            /\ ContainingLevel(walked[i], root) \in 0..d
            /\ ~cfg.follow_symlinks => call.entries[i].path = walked[i]
            /\ \A j \in 1..Len(walked) : walked[i] = walked[j] => i = j
       /\ { walked[i] : i \in 1..Len(walked) }
            = UNION { AcceptedAtLevel(cfg, root, level) : level \in 0..d }

\* With symlinks followed and roots /p and /o, /p listed with max_depth 1: the
\* symlink /p/e (entry path /o) and its child /p/e/c.jpg (entry path /o/c.jpg)
\* are returned, and an accepted entry two levels down is left out
C27_Witness ==
  /\ WalkReturned
  /\ cfg.follow_symlinks
  /\ call.recursive
  /\ call.max_depth = 1
  /\ call.directory = <<n_p>>
  /\ \E i, j \in 1..Len(call.walked) :
       /\ call.walked[i] = <<n_p, n_e>>
       /\ call.entries[i].path = <<n_o>>
       /\ call.walked[j] = <<n_p, n_e, n_cjpg>>
       /\ call.entries[j].path = <<n_o, n_cjpg>>
  /\ AcceptedAtLevel(cfg, <<n_p>>, 2) # {}
  /\ \A i \in 1..Len(call.walked) : Len(call.walked[i]) <= 3

\* No active call of _list_directory_recursive runs deeper than the effective
\* max_depth, and a listing that has returned holds what list_directory returns
WalkDepthBounded ==
  call.op = "walk" =>
    /\ Len(call.stack) <= call.bound + 1
    /\ \A i \in 1..Len(call.stack) : call.stack[i].current_depth = i - 1
    /\ WalkReturned =>
         call.entries = ListedEntries[cfg][<<call.directory, call.recursive, call.max_depth>>]

\* The items the call at each depth has still to handle, outermost call first
RemainingItems(w) ==
  [d \in 0..w.bound |-> IF d < Len(w.stack) THEN Len(w.stack[d + 1].items) ELSE 0]

\* Lexicographic order on (RemainingItems, number of active calls): a
\* well-founded order, so it cannot decrease for ever
WalkRankLess(v, w) ==
  \/ \E d \in 0..w.bound :
       /\ RemainingItems(v)[d] < RemainingItems(w)[d]
       /\ \A e \in 0..(d - 1) : RemainingItems(v)[e] = RemainingItems(w)[e]
  \/ /\ RemainingItems(v) = RemainingItems(w)
     /\ Len(v.stack) < Len(w.stack)

\* Every step of a listing that has not returned belongs to the same listing
\* and lowers its rank
WalkStepDecreases ==
  Walking =>
    /\ call'.op = "walk"
    /\ <<call'.directory, call'.recursive, call'.max_depth, call'.bound>>
         = <<call.directory, call.recursive, call.max_depth, call.bound>>
    /\ WalkRankLess(call', call)

\* C28: list_directory terminates on every tree, symlink cycles followed
\* included (each loop iteration and each return lowers a well-founded rank),
\* and its recursion depth never exceeds the effective max_depth.
C28_ListingTerminates ==
  /\ []WalkDepthBounded
  /\ [][WalkStepDecreases]_vars

\* With symlinks followed, /p/s/e leads to /o and /o/b leads back to /p/s: the
\* walk has gone round the cycle to the policy's depth of 10 and has returned
C28_Witness ==
  /\ WalkReturned
  /\ cfg.follow_symlinks
  /\ call.bound = 10
  /\ Resolve(<<n_p, n_s, n_e, n_b>>).path = <<n_p, n_s>>
  /\ Cardinality({ i \in 1..Len(call.entries) : call.entries[i].path = <<n_p, n_s>> }) > 2

(***************************************************************************)
(* Scan results and estimates                                              *)
(***************************************************************************)
TerminalStatuses == {"completed", "failed", "cancelled"}

\* successful + failed = processed <= total, and one listed file per success
Accounted(result) ==
  /\ result.successful_files + result.failed_files = result.processed_files
  /\ result.processed_files <= result.total_files
  /\ Len(result.files) = result.successful_files

\* C29: every scan returns a ScanResult with a terminal status, and every
\* returned result, whatever its status, satisfies successful_files +
\* failed_files = processed_files <= total_files and len(files) =
\* successful_files.
C29_ResultAccounting ==
  \A k \in Scans :
    Done(k) => (results[k].status \in TerminalStatuses /\ Accounted(results[k]))

\* Every result is terminal, and Completed and Cancelled results are accounted
ResultAccountingUnlessFailed ==
  \A k \in Scans :
    Done(k) =>
      /\ results[k].status \in TerminalStatuses
      /\ results[k].status # "failed" => Accounted(results[k])

Estimated == call.op = "estimate"

\* C30: estimate_scan_size on a directory that fails path validation reports
\* the violation (an error result) and never returns a normal estimate of zero
\* files.
C30_EstimateReportsViolation ==
  (Estimated /\ ValidatePathAccess(cfg, call.directory).exc # "none")
    => call.estimate.error # ""

\* What estimate_scan_size does return: the count and size of get_photo_files,
\* which is empty for a directory that fails validation
EstimateCountsPhotoFiles ==
  Estimated =>
    /\ call.estimate.error = ""
    /\ call.estimate.total_photo_files
         = Len(GetPhotoFiles(cfg, call.directory, call.recursive))
    /\ ValidatePathAccess(cfg, call.directory).exc # "none"
         => call.estimate.total_photo_files = 0

====
